---- MODULE Spec2Model ----
(***************************************************************************)
(* Model of the ccxt-simulator trading engine: one simulated account, one  *)
(* symbol, the orders / trades / positions / closed-PnL tables, the        *)
(* last-price table, the REST requests in flight (each request is its own  *)
(* goroutine and issues its database statements one by one, outside any    *)
(* transaction) and the SL/TP worker.                                      *)
(*                                                                         *)
(* Amounts (prices, balances, margins, fees, PnL) are fixed-point numbers  *)
(* in units of 1e-6 USDT; quantities are whole contracts.                  *)
(*                                                                         *)
(* Spec has one order-placing request in flight at a time, next to the     *)
(* worker, the cancel-all endpoint and the price feed, on a database whose *)
(* writes can fail.  SpecRace has market orders of several requests in     *)
(* flight at once on a database that does not fail.  SpecLeverage has      *)
(* market orders one after the other with the leverage of the symbol set   *)
(* in between.  SpecTrigger has the worker alone, on an account that holds *)
(* a position and a pending conditional order.  SpecFacade has market      *)
(* orders one after the other through the Binance, OKX and Bybit facades.  *)
(* SpecReduce has the orders of the Bybit and Hyperliquid facades and      *)
(* SpecLimit the LIMIT orders of the Binance facade.  SpecCancel, SpecStop *)
(* (SpecStopLive with the fairness of the worker's ticker) and SpecVenue   *)
(* have the worker on the account of SpecTrigger, next to the cancel       *)
(* endpoints, the trading-stop endpoint, and the price feeds of two        *)
(* venues.  SpecAuth is the authentication middleware of the Binance       *)
(* facade.                                                                 *)
(*                                                                         *)
(* The price service (the in-memory price table behind its read-write      *)
(* lock, the Redis key with its expiry, the clock) is SpecPrice.  The      *)
(* venue WebSocket client (connect, read loop, reconnection, ping loop,    *)
(* subscribe, close) is SpecClient, and SpecClientLive is SpecClient with  *)
(* the fairness the Go scheduler and the RWMutex give its goroutines.      *)
(***************************************************************************)
EXTENDS Integers, Sequences, FiniteSets, TLC

(***************************************************************************)
(* Bounds of the model.                                                    *)
(***************************************************************************)
\* number of order-placing requests accepted over a run
MaxOps == 3
\* number of database writes that may fail over a run
MaxFaults == 1

(***************************************************************************)
(* Program constants.                                                      *)
(***************************************************************************)
\* defaultSlippage = 0.0001 = 1 / SlippageDen
SlippageDen == 10000
\* TakerFeeRate = 0.0004 = TakerFeeNum / RateDen
TakerFeeNum == 4
RateDen == 10000
\* maintenanceMarginRate = 0.004 = MMRNum / MMRDen
MMRNum == 4
MMRDen == 1000

(***************************************************************************)
(* Inputs.                                                                 *)
(***************************************************************************)
\* mark prices the venue streams (25 and 50 USDT)
Prices == {25000000, 50000000}
\* what GetPrice returns next to its error when no price is available
NoPrice == 0
\* trigger prices of conditional orders (37.5 USDT)
StopPrices == {37500000}
\* requested quantities; 0 is an absent quantity
Quantities == {1, 2}
\* leverage of the account (DefaultLeverage) and of a request
Leverages == {10}
\* leverage a client sets for the symbol
SymbolLeverages == {20}
\* balance the account is created with
InitialBalances == {6000000}
\* exchange.SymbolInfo of the symbol: tick 0.005 USDT
SymbolInfo == [TickSize |-> 5000, MinQty |-> 1, MaxQty |-> 2]

\* request slots: the requests that can be in flight at once
Requests == {1, 2}

(***************************************************************************)
(* Arithmetic.                                                             *)
(***************************************************************************)
Abs(x) == IF x < 0 THEN -x ELSE x

\* math.Round of the quotient n / d (d > 0): nearest, halves away from zero
RoundDiv(n, d) ==
    IF n >= 0 THEN (2 * n + d) \div (2 * d)
              ELSE -((2 * (-n) + d) \div (2 * d))

\* currentPrice * (1 + defaultSlippage) and currentPrice * (1 - defaultSlippage)
SlipUp(p) == p + RoundDiv(p, SlippageDen)
SlipDown(p) == p - RoundDiv(p, SlippageDen)

\* roundPrice: math.Round(price / TickSize) * TickSize
roundPrice(p, info) == RoundDiv(p, info.TickSize) * info.TickSize

\* getSide: the order side of an open / a close on a position side
getSide(positionSide, isOpen) ==
    IF isOpen
    THEN (IF positionSide = "LONG" THEN "BUY" ELSE "SELL")
    ELSE (IF positionSide = "LONG" THEN "SELL" ELSE "BUY")

\* calculateLiquidationPrice: entry * (1 - 1/L + m) for LONG, entry * (1 + 1/L - m) for SHORT
calculateLiquidationPrice(entryPrice, leverage, side) ==
    IF side = "LONG"
    THEN entryPrice - RoundDiv(entryPrice, leverage) + RoundDiv(entryPrice * MMRNum, MMRDen)
    ELSE entryPrice + RoundDiv(entryPrice, leverage) - RoundDiv(entryPrice * MMRNum, MMRDen)

\* positionValue * account.TakerFeeRate
TakerFee(positionValue) == RoundDiv(positionValue * TakerFeeNum, RateDen)

\* positionValue / float64(leverage)
MarginFor(positionValue, leverage) == RoundDiv(positionValue, leverage)

(***************************************************************************)
(* State.                                                                  *)
(***************************************************************************)
VARIABLES
    balance,         \* accounts.balance_usdt of the account
    initialBalance,  \* accounts.initial_balance
    hedgeMode,       \* accounts.hedge_mode
    defaultLeverage, \* accounts.default_leverage
    positions,       \* table positions: row id -> row (soft-deleted rows stay, live = FALSE)
    orders,          \* table orders: row id -> row
    trades,          \* table trades
    closedPnL,       \* table closed_pnl_records
    price,           \* PriceService.prices[venue][symbol].Price, NoPrice when none is available
    req,             \* the REST requests in flight: handler position and local variables
    worker,          \* SLTPWorker: position in checkAndTriggerOrders and the orders it loaded
    leverageCache,   \* TradingService.leverageCache[account][symbol], 0 when there is none
    started,         \* history: number of order-placing requests accepted
    faults,          \* history: number of database writes that failed
    now,             \* the engine's wall clock, in seconds
    prices,          \* PriceService.prices[venue][symbol], the update as it was stored
    pricesMux,       \* PriceService.pricesMux: its reader count and the readers inside it
    redis,           \* the Redis hash price:<venue>:<symbol> and the time its key expires
    result,          \* what the last call of PriceService.GetPrice came to
    client,          \* a venue client: conn, isConnected, reconnectAttempts, subscribed, ctx
    routines,        \* its goroutines: messageLoop, pingLoop, a subscribe call, a Close call
    venue,           \* the venue's side: reachable or not, the streams of the open socket
    episode,         \* history: reconnect attempts and waits since the socket was last
                     \* open, read loops started, the message the read loop holds
    received,        \* history: the order form a venue facade received last
    http,            \* the request in the Binance authentication middleware, and its answer
    exchangeType,    \* accounts.exchange_type: the venue the account is bound to
    okxPrice         \* the last mark price of the symbol at OKX; price is the one at Binance

vars == <<balance, initialBalance, hedgeMode, defaultLeverage, positions, orders, trades,
          closedPnL, price, req, worker, leverageCache, started, faults,
          now, prices, pricesMux, redis, result, client, routines, venue, episode,
          received, http, exchangeType, okxPrice>>

\* a venue client in detail
stream == <<client, routines, venue, episode>>

\* the price service and a venue client in detail
feed == <<now, prices, pricesMux, redis, result, stream, okxPrice>>

db == <<balance, positions, orders, trades, closedPnL>>
account == <<initialBalance, hedgeMode, defaultLeverage, leverageCache, exchangeType>>

NoPosition == [side |-> "LONG", qty |-> 0, entry |-> 0, margin |-> 0, lev |-> 0, liq |-> 0,
               stopLoss |-> 0, takeProfit |-> 0, live |-> FALSE]

IdleReq == [pc |-> "idle", op |-> "none", side |-> "LONG", qty |-> 0, otype |-> "MARKET",
            bal |-> 0, exec |-> 0, lev |-> 0, fee |-> 0, margin |-> 0, oid |-> 0,
            pid |-> 0, pos |-> NoPosition, cqty |-> 0, pnl |-> 0, ret |-> 0, err |-> ""]

IdleWorker == [pc |-> "idle", list |-> <<>>, i |-> 0]

\* no update was ever stored; received is history: the wall clock when the update arrived
NoUpdate == [Price |-> NoPrice, Timestamp |-> 0, received |-> 0]

NoKey == [Price |-> NoPrice, expires |-> 0]

NoResult == [status |-> "none", value |-> NoPrice, from |-> ""]

\* no request is in the authentication middleware
NoRequest == [pc |-> "idle"]

\* no facade has received an order
NoForm == [venue |-> "", side |-> "", positionSide |-> "", reduceOnly |-> FALSE]

\* NewPriceService and NewClient, before Start: no update stored, no socket, no goroutine
FeedInit ==
    /\ now = 0
    /\ prices = NoUpdate
    /\ pricesMux = [readerCount |-> 0, inside |-> 0]
    /\ redis = NoKey
    /\ result = NoResult
    /\ client = [conn |-> "nil", isConnected |-> FALSE, reconnectAttempts |-> 0,
                 subscribed |-> {}, cancelled |-> FALSE]
    /\ routines = [Connect |-> "none", messageLoop |-> "none", pingLoop |-> "none",
                   subscribe |-> "none", symbols |-> {}, Close |-> "none"]
    /\ venue = [reachable |-> TRUE, streams |-> {}]
    /\ episode = [dials |-> 0, lastWait |-> 0, loopsStarted |-> 0, message |-> NoPrice,
                  lastRead |-> NoPrice, reconnected |-> FALSE]

Init ==
    /\ initialBalance \in InitialBalances
    /\ balance = initialBalance
    /\ hedgeMode = FALSE            \* the column's default; no engine call reads it
    /\ defaultLeverage \in Leverages
    /\ positions = <<>>
    /\ orders = <<>>
    /\ trades = <<>>
    /\ closedPnL = <<>>
    /\ price \in Prices
    /\ req = [r \in Requests |-> IdleReq]
    /\ worker = IdleWorker
    /\ leverageCache = 0
    /\ started = 0
    /\ faults = 0
    /\ FeedInit
    /\ received = NoForm
    /\ http = NoRequest
    /\ exchangeType = "binance"
    /\ okxPrice = NoPrice

(***************************************************************************)
(* Persistence ports.                                                      *)
(***************************************************************************)
\* a lookup that leaves the side out of its WHERE clause: the first live row, 0 if none
GetByAccountIDAndSymbol(side) ==
    LET ids == {i \in DOMAIN positions : positions[i].live}
    IN IF ids = {} THEN 0 ELSE CHOOSE i \in ids : \A j \in ids : i <= j

\* PositionRepository.GetByAccountIDSymbolAndSide: the first live row of that side, 0 if none
GetByAccountIDSymbolAndSide(side) ==
    LET ids == {i \in DOMAIN positions : positions[i].live /\ positions[i].side = side}
    IN IF ids = {} THEN 0 ELSE CHOOSE i \in ids : \A j \in ids : i <= j

\* the engine call of request r returns err ("" for none) to the handler, which still
\* holds the request it passed
Return(r, call, err) ==
    req' = [req EXCEPT ![r] = [IdleReq EXCEPT !.pc = "respond", !.op = call.op,
                                              !.side = call.side, !.qty = call.qty,
                                              !.otype = call.otype, !.bal = call.bal,
                                              !.err = err]]

\* the handler answers the client, handleError or 200, and is done: the slot is free again
Respond(r) ==
    /\ req[r].pc = "respond"
    /\ req' = [req EXCEPT ![r] = IdleReq]
    /\ UNCHANGED <<db, account, feed, price, worker, started, received, http, faults>>

\* handler positions at which request r is about to write to the database
WritePositions == {"open_order", "exec_order", "exec_trade", "exec_write_pos", "exec_balance",
                   "close_order", "close_trade", "close_record", "close_delete",
                   "close_update_pos", "close_balance"}

\* a database write of request r fails: the call returns the error at once
WriteFails(r) ==
    /\ req[r].pc \in WritePositions
    /\ faults < MaxFaults
    /\ faults' = faults + 1
    /\ Return(r, req[r], "database")
    /\ UNCHANGED <<db, account, feed, price, worker, started, received, http>>

(***************************************************************************)
(* TradingService.OpenPosition and executeOpenOrder.                       *)
(***************************************************************************)
\* execution price of an open: slippage for market orders, then roundPrice
OpenExecutionPrice(currentPrice, side, otype, limitPrice) ==
    roundPrice(IF otype = "MARKET"
               THEN (IF side = "LONG" THEN SlipUp(currentPrice) ELSE SlipDown(currentPrice))
               ELSE IF otype = "LIMIT" THEN limitPrice ELSE currentPrice,
               SymbolInfo)

\* getLeverage: the leverage set for the symbol, else the account's default
getLeverage(default) == IF leverageCache # 0 THEN leverageCache ELSE default

\* a balance check that lets every open through
BalanceNeverShort(bal, requiredMargin, fee) == FALSE

\* the balance check of OpenPosition: account.BalanceUSDT < requiredMargin + fee
BalanceShort(bal, requiredMargin, fee) == bal < requiredMargin + fee

\* OpenPosition up to the balance check: reads the account and the price
OpenPositionAt(r, side, quantity, orderType, limitPrice) ==
    LET otype == IF orderType = "" THEN "MARKET" ELSE orderType
        exec == OpenExecutionPrice(price, side, otype, limitPrice)
        lev == getLeverage(defaultLeverage)
        positionValue == exec * quantity
        requiredMargin == MarginFor(positionValue, lev)
        fee == TakerFee(positionValue)
        call == [IdleReq EXCEPT !.op = "open", !.side = side, !.qty = quantity,
                                !.otype = otype, !.bal = balance, !.exec = exec,
                                !.lev = lev, !.fee = fee, !.margin = requiredMargin]
        err == IF price = NoPrice THEN "price"
               ELSE IF quantity < SymbolInfo.MinQty \/ quantity > SymbolInfo.MaxQty
                    THEN "InvalidQuantity"
               ELSE IF BalanceShort(balance, requiredMargin, fee) THEN "InsufficientBalance"
               ELSE ""
    IN IF err = ""
       THEN req' = [req EXCEPT ![r] = [call EXCEPT !.pc = "open_order"]]
       ELSE Return(r, call, err)

\* OpenPosition of a request that carries no price
OpenPosition(r, side, quantity, orderType) == OpenPositionAt(r, side, quantity, orderType, 0)

\* orderRepo.Create(order) with Status NEW; a limit order is returned pending
OpenCreateOrder(r) ==
    /\ req[r].pc = "open_order"
    /\ orders' = Append(orders,
           [type |-> req[r].otype, side |-> getSide(req[r].side, TRUE),
            positionSide |-> req[r].side, qty |-> req[r].qty, stopPrice |-> 0,
            filledQty |-> 0, avgPrice |-> 0, status |-> "NEW",
            reduceOnly |-> FALSE, closePosition |-> FALSE, trigger |-> 0])
    /\ IF req[r].otype = "MARKET"
       THEN req' = [req EXCEPT ![r].pc = "exec_order", ![r].oid = Len(orders) + 1]
       ELSE Return(r, req[r], "")
    /\ UNCHANGED <<balance, positions, trades, closedPnL, account, feed, price, worker,
                   started, received, http, faults>>

\* executeOpenOrder: orderRepo.Update(order) saves the whole row as FILLED
ExecUpdateOrder(r) ==
    /\ req[r].pc = "exec_order"
    /\ orders' = [orders EXCEPT ![req[r].oid] =
                     [@ EXCEPT !.status = "FILLED", !.filledQty = req[r].qty,
                               !.avgPrice = req[r].exec]]
    /\ req' = [req EXCEPT ![r].pc = "exec_trade"]
    /\ UNCHANGED <<balance, positions, trades, closedPnL, account, feed, price, worker,
                   started, received, http, faults>>

\* executeOpenOrder: tradeRepo.Create(trade), RealizedPnL left zero
\* (margin: history, the margin the call locks or gives back)
ExecCreateTrade(r) ==
    /\ req[r].pc = "exec_trade"
    /\ trades' = Append(trades, [order |-> req[r].oid, qty |-> req[r].qty,
                                 price |-> req[r].exec, fee |-> req[r].fee,
                                 realizedPnL |-> 0, isMaker |-> FALSE,
                                 margin |-> req[r].margin])
    /\ req' = [req EXCEPT ![r].pc = "exec_read_pos"]
    /\ UNCHANGED <<balance, positions, orders, closedPnL, account, feed, price, worker,
                   started, received, http, faults>>

\* executeOpenOrder: positionRepo.GetByAccountIDSymbolAndSide
ExecReadPosition(r) ==
    /\ req[r].pc = "exec_read_pos"
    /\ LET id == GetByAccountIDSymbolAndSide(req[r].side)
       IN req' = [req EXCEPT ![r].pc = "exec_write_pos", ![r].pid = id,
                             ![r].pos = IF id = 0 THEN NoPosition ELSE positions[id]]
    /\ UNCHANGED <<db, account, feed, price, worker, started, received, http, faults>>

\* the row executeOpenOrder writes when it adds to existingPosition
AddToPosition(existing, quantity, executionPrice, margin, leverage) ==
    LET totalQty == existing.qty + quantity
        avgPrice == RoundDiv(existing.entry * existing.qty + executionPrice * quantity, totalQty)
    IN [existing EXCEPT !.qty = totalQty, !.entry = avgPrice, !.margin = @ + margin,
                        !.liq = calculateLiquidationPrice(avgPrice, leverage, existing.side)]

\* the row executeOpenOrder creates when there is no position on that side
NewPosition(side, quantity, executionPrice, margin, leverage) ==
    [side |-> side, qty |-> quantity, entry |-> executionPrice, margin |-> margin,
     lev |-> leverage, liq |-> calculateLiquidationPrice(executionPrice, leverage, side),
     stopLoss |-> 0, takeProfit |-> 0, live |-> TRUE]

\* positionRepo.Update(position) is gorm's Save of the whole row read earlier. On a row
\* soft-deleted in between, the UPDATE matches nothing and Save either stops there or
\* falls back to an upsert that brings the row back, depending on the gorm release.
SavePosition(id, row, revive) ==
    IF positions[id].live \/ revive
    THEN [positions EXCEPT ![id] = row]
    ELSE positions

\* executeOpenOrder: positionRepo.Update(existingPosition) or positionRepo.Create(position)
ExecWritePosition(r) ==
    /\ req[r].pc = "exec_write_pos"
    /\ IF req[r].pid # 0
       THEN \E revive \in BOOLEAN :
               positions' = SavePosition(req[r].pid,
                               AddToPosition(req[r].pos, req[r].qty, req[r].exec,
                                             req[r].margin, req[r].lev), revive)
       ELSE positions' = Append(positions,
                               NewPosition(req[r].side, req[r].qty, req[r].exec,
                                           req[r].margin, req[r].lev))
    /\ req' = [req EXCEPT ![r].pc = "exec_balance"]
    /\ UNCHANGED <<balance, orders, trades, closedPnL, account, feed, price, worker,
                   started, received, http, faults>>

\* executeOpenOrder: account.BalanceUSDT -= margin + fee; accountRepo.Update(account)
ExecUpdateAccount(r) ==
    /\ req[r].pc = "exec_balance"
    /\ balance' = req[r].bal - (req[r].margin + req[r].fee)
    /\ Return(r, req[r], "")
    /\ UNCHANGED <<positions, orders, trades, closedPnL, account, feed, price, worker,
                   started, received, http, faults>>

(***************************************************************************)
(* TradingService.ClosePosition.                                           *)
(***************************************************************************)
\* execution price of a close: slippage inverted, for market orders only; not rounded
CloseExecutionPrice(currentPrice, side, otype) ==
    IF otype = "MARKET"
    THEN (IF side = "LONG" THEN SlipDown(currentPrice) ELSE SlipUp(currentPrice))
    ELSE currentPrice

\* realizedPnL of closing closeQty of a position
RealizedPnL(side, executionPrice, entryPrice, closeQty) ==
    IF side = "LONG" THEN (executionPrice - entryPrice) * closeQty
                     ELSE (entryPrice - executionPrice) * closeQty

\* marginToReturn := position.Margin * (closeQty / position.Quantity)
MarginToReturn(position, closeQty) == RoundDiv(position.margin * closeQty, position.qty)

\* closeQty: the whole position unless a positive quantity is requested
CloseQuantity(position, quantity) == IF quantity > 0 THEN quantity ELSE position.qty

\* the close order row, created FILLED (trigger: history, the conditional order that
\* caused the close, 0 for a close a client asked for)
CloseOrder(side, otype, closeQty, executionPrice, position, trigger) ==
    [type |-> otype, side |-> getSide(side, FALSE), positionSide |-> side, qty |-> closeQty,
     stopPrice |-> 0, filledQty |-> closeQty, avgPrice |-> executionPrice,
     status |-> "FILLED", reduceOnly |-> TRUE, closePosition |-> (closeQty = position.qty),
     trigger |-> trigger]

\* the models.ClosedPnLRecord of a full close (position, order: history, the position row
\* it closed and the close order it belongs to)
ClosedRecord(position, pid, oid, executionPrice, realizedPnL, fee, reason) ==
    [side |-> position.side, qty |-> position.qty, entry |-> position.entry,
     exit |-> executionPrice, realizedPnL |-> realizedPnL, totalFee |-> fee,
     leverage |-> position.lev, reason |-> reason, position |-> pid, order |-> oid]

\* ClosePosition: accountRepo.GetByID
ClosePosition(r, side, quantity, orderType) ==
    req' = [req EXCEPT ![r] = [IdleReq EXCEPT !.pc = "close_read", !.op = "close",
                                                 !.side = side, !.qty = quantity,
                                                 !.otype = orderType, !.bal = balance]]

\* ClosePosition: find the position, determine closeQty, read the price, compute PnL and fee
CloseReadPosition(r) ==
    /\ req[r].pc = "close_read"
    /\ LET id == GetByAccountIDSymbolAndSide(req[r].side)
           position == positions[id]
           closeQty == CloseQuantity(position, req[r].qty)
           otype == IF req[r].otype = "" THEN "MARKET" ELSE req[r].otype
           exec == CloseExecutionPrice(price, req[r].side, otype)
       IN IF id = 0 THEN Return(r, req[r], "NoOpenPosition")
          ELSE IF req[r].qty > position.qty THEN Return(r, req[r], "InvalidQuantity")
          ELSE IF price = NoPrice THEN Return(r, req[r], "price")
          ELSE req' = [req EXCEPT ![r].pc = "close_order", ![r].pid = id,
                                  ![r].pos = position, ![r].cqty = closeQty,
                                  ![r].otype = otype, ![r].exec = exec,
                                  ![r].pnl = RealizedPnL(position.side, exec,
                                                         position.entry, closeQty),
                                  ![r].fee = TakerFee(exec * closeQty),
                                  ![r].ret = MarginToReturn(position, closeQty)]
    /\ UNCHANGED <<db, account, feed, price, worker, started, received, http, faults>>

\* ClosePosition: orderRepo.Create(order), Status FILLED
CloseCreateOrder(r) ==
    /\ req[r].pc = "close_order"
    /\ orders' = Append(orders, CloseOrder(req[r].side, req[r].otype, req[r].cqty,
                                           req[r].exec, req[r].pos, 0))
    /\ req' = [req EXCEPT ![r].pc = "close_trade", ![r].oid = Len(orders) + 1]
    /\ UNCHANGED <<balance, positions, trades, closedPnL, account, feed, price, worker,
                   started, received, http, faults>>

\* ClosePosition: tradeRepo.Create(trade)
CloseCreateTrade(r) ==
    /\ req[r].pc = "close_trade"
    /\ trades' = Append(trades, [order |-> req[r].oid, qty |-> req[r].cqty,
                                 price |-> req[r].exec, fee |-> req[r].fee,
                                 realizedPnL |-> req[r].pnl, isMaker |-> FALSE,
                                 margin |-> req[r].ret])
    /\ req' = [req EXCEPT ![r].pc =
                  IF req[r].cqty >= req[r].pos.qty THEN "close_record"
                                                   ELSE "close_update_pos"]
    /\ UNCHANGED <<balance, positions, orders, closedPnL, account, feed, price, worker,
                   started, received, http, faults>>

\* ClosePosition, full close: closedPnLRepo.Create(closedPnL), ClosedReason "manual"
CloseCreateRecord(r) ==
    /\ req[r].pc = "close_record"
    /\ closedPnL' = Append(closedPnL, ClosedRecord(req[r].pos, req[r].pid, req[r].oid,
                                                   req[r].exec, req[r].pnl, req[r].fee,
                                                   "manual"))
    /\ req' = [req EXCEPT ![r].pc = "close_delete"]
    /\ UNCHANGED <<balance, positions, orders, trades, account, feed, price, worker,
                   started, received, http, faults>>

\* PositionRepository.Delete: soft delete by id
DeletePosition(id) == [positions EXCEPT ![id].live = FALSE]

\* ClosePosition, full close: positionRepo.Delete(position.ID)
CloseDeletePosition(r) ==
    /\ req[r].pc = "close_delete"
    /\ positions' = DeletePosition(req[r].pid)
    /\ req' = [req EXCEPT ![r].pc = "close_balance"]
    /\ UNCHANGED <<balance, orders, trades, closedPnL, account, feed, price, worker,
                   started, received, http, faults>>

\* the row a partial close writes back
ReducePosition(position, closeQty, marginToReturn) ==
    [position EXCEPT !.qty = @ - closeQty, !.margin = @ - marginToReturn]

\* ClosePosition, partial close: positionRepo.Update(position)
CloseUpdatePosition(r) ==
    /\ req[r].pc = "close_update_pos"
    /\ \E revive \in BOOLEAN :
           positions' = SavePosition(req[r].pid,
                            ReducePosition(req[r].pos, req[r].cqty, req[r].ret), revive)
    /\ req' = [req EXCEPT ![r].pc = "close_balance"]
    /\ UNCHANGED <<balance, orders, trades, closedPnL, account, feed, price, worker,
                   started, received, http, faults>>

\* a credit that keeps the margin locked
CloseCreditWithoutMargin(marginToReturn, realizedPnL, fee) == realizedPnL - fee

\* the amount a close credits: marginToReturn + realizedPnL - fee
CloseCredit(marginToReturn, realizedPnL, fee) == marginToReturn + realizedPnL - fee

\* ClosePosition: account.BalanceUSDT += credit; accountRepo.Update(account)
CloseUpdateAccount(r) ==
    /\ req[r].pc = "close_balance"
    /\ balance' = req[r].bal + CloseCredit(req[r].ret, req[r].pnl, req[r].fee)
    /\ Return(r, req[r], "")
    /\ UNCHANGED <<positions, orders, trades, closedPnL, account, feed, price, worker,
                   started, received, http, faults>>

(***************************************************************************)
(* Conditional orders and the SL/TP worker.                                *)
(***************************************************************************)
ConditionalTypes == {"STOP_LOSS", "TAKE_PROFIT", "STOP_MARKET"}

\* TradingService.CreateConditionalOrder: the order is stored NEW with its stop price
CreateConditionalOrder(r, side, quantity, orderType, stopPrice, reduceOnly, closePosition) ==
    /\ orders' = Append(orders,
           [type |-> orderType, side |-> getSide(side, FALSE), positionSide |-> side,
            qty |-> quantity, stopPrice |-> stopPrice, filledQty |-> 0, avgPrice |-> 0,
            status |-> "NEW", reduceOnly |-> reduceOnly, closePosition |-> closePosition,
            trigger |-> 0])
    /\ UNCHANGED <<req, balance, positions, trades, closedPnL>>

\* OrderRepository.GetAllPendingStopOrders: ids of the NEW orders of a conditional type
GetAllPendingStopOrders ==
    SelectSeq([i \in 1..Len(orders) |-> i],
              LAMBDA i : orders[i].status = "NEW" /\ orders[i].type \in ConditionalTypes)

\* shouldTrigger with the comparisons of the LONG and the SHORT side exchanged
shouldTriggerSwapped(order, currentPrice) ==
    LET stopPrice == order.stopPrice
        isStopLoss == order.type = "STOP_MARKET" \/ order.type = "STOP_LOSS"
        isTakeProfit == order.type = "TAKE_PROFIT"
    IN IF stopPrice <= 0 THEN FALSE
       ELSE IF isStopLoss /\ order.positionSide = "LONG" THEN currentPrice >= stopPrice
       ELSE IF isStopLoss /\ order.positionSide = "SHORT" THEN currentPrice <= stopPrice
       ELSE IF isTakeProfit /\ order.positionSide = "LONG" THEN currentPrice <= stopPrice
       ELSE IF isTakeProfit /\ order.positionSide = "SHORT" THEN currentPrice >= stopPrice
       ELSE FALSE

\* shouldTrigger with strict comparisons: a price that equals the stop price does not fire
shouldTriggerStrict(order, currentPrice) ==
    LET stopPrice == order.stopPrice
        isStopLoss == order.type = "STOP_MARKET" \/ order.type = "STOP_LOSS"
        isTakeProfit == order.type = "TAKE_PROFIT"
    IN IF stopPrice <= 0 THEN FALSE
       ELSE IF isStopLoss /\ order.positionSide = "LONG" THEN currentPrice < stopPrice
       ELSE IF isStopLoss /\ order.positionSide = "SHORT" THEN currentPrice > stopPrice
       ELSE IF isTakeProfit /\ order.positionSide = "LONG" THEN currentPrice > stopPrice
       ELSE IF isTakeProfit /\ order.positionSide = "SHORT" THEN currentPrice < stopPrice
       ELSE FALSE

\* SLTPWorker.shouldTrigger
shouldTrigger(order, currentPrice) ==
    LET stopPrice == order.stopPrice
        isStopLoss == order.type = "STOP_MARKET" \/ order.type = "STOP_LOSS"
        isTakeProfit == order.type = "TAKE_PROFIT"
    IN IF stopPrice <= 0 THEN FALSE
       ELSE IF isStopLoss /\ order.positionSide = "LONG" THEN currentPrice <= stopPrice
       ELSE IF isStopLoss /\ order.positionSide = "SHORT" THEN currentPrice >= stopPrice
       ELSE IF isTakeProfit /\ order.positionSide = "LONG" THEN currentPrice >= stopPrice
       ELSE IF isTakeProfit /\ order.positionSide = "SHORT" THEN currentPrice <= stopPrice
       ELSE FALSE

\* close reason of a triggered order
TriggerReason(order) ==
    IF order.type = "TAKE_PROFIT" THEN "take_profit" ELSE "stop_loss"

\* quantity a triggered order closes: the whole position for closePosition or no quantity
TriggerQuantity(order, position) ==
    IF order.closePosition \/ order.qty = 0 THEN position.qty ELSE order.qty

\* error of ExecuteTriggeredOrder, "" when it can run
TriggerError(order) ==
    LET id == GetByAccountIDSymbolAndSide(order.positionSide)
    IN IF id = 0 THEN "NoOpenPosition"
       ELSE IF TriggerQuantity(order, positions[id]) > positions[id].qty THEN "InvalidQuantity"
       ELSE IF price = NoPrice THEN "price"
       ELSE ""

\* status a triggered order is left in
TriggeredStatus == "FILLED"

\* TradingService.ExecuteTriggeredOrder: the market close of the matching position at the
\* current mark price and the order's move out of NEW, in one transaction
ExecuteTriggeredOrder(oid) ==
    LET order == orders[oid]
        id == GetByAccountIDSymbolAndSide(order.positionSide)
        position == positions[id]
        closeQty == TriggerQuantity(order, position)
        exec == CloseExecutionPrice(price, order.positionSide, "MARKET")
        pnl == RealizedPnL(position.side, exec, position.entry, closeQty)
        fee == TakerFee(exec * closeQty)
        ret == MarginToReturn(position, closeQty)
        err == TriggerError(order)
    IN IF err # ""
       THEN UNCHANGED db
       ELSE /\ orders' = Append([orders EXCEPT ![oid].status = TriggeredStatus],
                                CloseOrder(order.positionSide, "MARKET", closeQty, exec,
                                           position, oid))
            /\ trades' = Append(trades, [order |-> Len(orders) + 1, qty |-> closeQty,
                                         price |-> exec, fee |-> fee, realizedPnL |-> pnl,
                                         isMaker |-> FALSE, margin |-> ret])
            /\ IF closeQty >= position.qty
               THEN /\ closedPnL' = Append(closedPnL,
                                           ClosedRecord(position, id, Len(orders) + 1, exec,
                                                        pnl, fee, TriggerReason(order)))
                    /\ positions' = DeletePosition(id)
               ELSE /\ closedPnL' = closedPnL
                    /\ positions' = [positions EXCEPT ![id] =
                                        ReducePosition(position, closeQty, ret)]
            /\ balance' = balance + CloseCredit(ret, pnl, fee)

\* checkAndTriggerOrders, on a tick: load the pending stop orders
WorkerTick ==
    /\ worker.pc = "idle"
    /\ LET list == GetAllPendingStopOrders
       IN worker' = IF list = <<>> THEN IdleWorker
                    ELSE [pc |-> "loop", list |-> list, i |-> 1]
    /\ UNCHANGED <<db, account, feed, price, req, started, received, http, faults>>

\* a loop that examines the same loaded order again instead of moving on
RepeatIndex(i) == i

\* the loop of checkAndTriggerOrders moves on to the next loaded order
NextIndex(i) == i + 1

\* checkAndTriggerOrders asks the venues in turn, Binance first, and takes the first price
FirstPrice == IF price # NoPrice THEN price ELSE okxPrice

\* checkAndTriggerOrders, one iteration of the loop over the loaded orders: the triggered
\* order is executed with exchangeType Binance, whatever venue the account is bound to
WorkerStep ==
    /\ worker.pc = "loop"
    /\ LET oid == worker.list[worker.i]
           currentPrice == FirstPrice
       IN IF currentPrice # NoPrice /\ shouldTrigger(orders[oid], currentPrice)
          THEN ExecuteTriggeredOrder(oid)
          ELSE UNCHANGED db
    /\ worker' = IF NextIndex(worker.i) > Len(worker.list) THEN IdleWorker
                 ELSE [worker EXCEPT !.i = NextIndex(worker.i)]
    /\ UNCHANGED <<account, feed, price, req, started, received, http, faults>>

(***************************************************************************)
(* Cancelling and prices.                                                  *)
(***************************************************************************)
\* OrderRepository.CancelAllOpenOrdersBySymbol: one UPDATE of the NEW / PARTIALLY_FILLED rows
CancelAllOpenOrdersBySymbol ==
    [i \in 1..Len(orders) |->
        IF orders[i].status \in {"NEW", "PARTIALLY_FILLED"}
        THEN [orders[i] EXCEPT !.status = "CANCELED"]
        ELSE orders[i]]

\* the process runs: no goroutine has taken it down with a fatal error
ProcessUp == worker.pc \notin {"fatal", "down"}

\* TradingService.CancelAllOrders, from a facade's cancel-all endpoint
CancelAllOrders ==
    /\ ProcessUp
    /\ orders' = CancelAllOpenOrdersBySymbol
    /\ orders' # orders
    /\ UNCHANGED <<balance, positions, trades, closedPnL, account, feed, price, req, worker,
                   started, received, http, faults>>

\* TradingService.SetLeverage, from POST /fapi/v1/leverage: only the cache is written
SetLeverage ==
    /\ ProcessUp
    /\ \E leverage \in SymbolLeverages : leverageCache' = leverage
    /\ leverageCache' # leverageCache
    /\ UNCHANGED <<db, initialBalance, hedgeMode, defaultLeverage, exchangeType, feed, price,
                   req, worker, started, received, http, faults>>

\* PriceService.OnPriceUpdate: the venue streams a new mark price
OnPriceUpdate ==
    /\ ProcessUp
    /\ \E p \in Prices : price' = p
    /\ price' # price
    /\ UNCHANGED <<db, account, feed, req, worker, started, received, http, faults>>

\* the entry in memory becomes older than 5 s and no fallback has a price: a GetPrice call
\* that gets as far as its return statement returns an error
PriceUnavailable ==
    /\ ProcessUp
    /\ price # NoPrice
    /\ price' = NoPrice
    /\ UNCHANGED <<db, account, feed, req, worker, started, received, http, faults>>

\* a request slot of a process that is gone
DownReq == [IdleReq EXCEPT !.pc = "down"]

\* PriceService.GetPrice on an entry older than 5 s releases pricesMux a second time. With
\* no other reader inside the lock that is the fatal error "sync: RUnlock of unlocked
\* RWMutex" and the process is gone, every goroutine with it (worker.pc = "fatal" when the
\* call was the worker's, for the order it examines; "down" when it was a request
\* handler's); with another reader inside, the call goes on to its fallbacks.
GetPriceFatal ==
    /\ ProcessUp
    /\ price = NoPrice
    /\ \/ worker.pc = "loop" /\ worker' = [IdleWorker EXCEPT !.pc = "fatal"]
       \/ worker' = [IdleWorker EXCEPT !.pc = "down"]
    /\ req' = [r \in Requests |-> DownReq]
    /\ UNCHANGED <<db, account, feed, price, started, received, http, faults>>

(***************************************************************************)
(* Venue facades.                                                          *)
(***************************************************************************)
\* a request takes the first free slot
FreeSlot(r) ==
    /\ req[r].pc = "idle"
    /\ \A q \in Requests : q < r => req[q].pc # "idle"

\* order types a Binance client sends
BinanceOrderTypes == {"MARKET", "STOP_MARKET", "TAKE_PROFIT_MARKET"}

\* the form fields of POST /fapi/v1/order: a market order carries no stop price; a
\* conditional order carries one and either closePosition or a quantity with reduceOnly
BinanceOrderForms ==
    {f \in [side : {"BUY", "SELL"}, positionSide : {"LONG", "SHORT", "BOTH"},
            type : BinanceOrderTypes, quantity : Quantities \cup {0},
            stopPrice : StopPrices \cup {0}, reduceOnly : BOOLEAN,
            closePosition : BOOLEAN] :
        IF f.type = "MARKET"
        THEN f.stopPrice = 0 /\ ~f.closePosition
        ELSE /\ f.stopPrice # 0
             /\ \/ f.closePosition /\ f.quantity = 0 /\ ~f.reduceOnly
                \/ ~f.closePosition /\ f.quantity = SymbolInfo.MinQty /\ f.reduceOnly}

\* the market orders among them
BinanceMarketForms == {f \in BinanceOrderForms : f.type = "MARKET"}

\* binance.Handler.CreateOrder: POST /fapi/v1/order with form f
BinanceOrder(r, f) ==
    /\ FreeSlot(r)
    /\ started < MaxOps
    /\    LET posSide == IF f.positionSide = "LONG" THEN "LONG"
                         ELSE IF f.positionSide = "SHORT" THEN "SHORT"
                         ELSE IF f.side = "BUY" THEN "LONG" ELSE "SHORT"
              oType == IF f.type = "LIMIT" THEN "LIMIT"
                       ELSE IF f.type \in {"STOP", "STOP_MARKET"} THEN "STOP_MARKET"
                       ELSE IF f.type \in {"TAKE_PROFIT", "TAKE_PROFIT_MARKET"}
                            THEN "TAKE_PROFIT"
                       ELSE "MARKET"
              isConditionalOrder == oType = "STOP_MARKET" \/ oType = "TAKE_PROFIT"
              isClosing == \/ f.positionSide = "LONG" /\ f.side = "SELL"
                           \/ f.positionSide = "SHORT" /\ f.side = "BUY"
                           \/ f.reduceOnly \/ f.closePosition
              isOpen == ~isClosing /\ ~isConditionalOrder
          IN IF isConditionalOrder
             THEN CreateConditionalOrder(r, posSide, f.quantity, oType, f.stopPrice,
                                         f.reduceOnly, f.closePosition)
             ELSE IF isOpen
             THEN OpenPosition(r, posSide, f.quantity, oType) /\ UNCHANGED db
             ELSE ClosePosition(r, posSide, f.quantity, oType) /\ UNCHANGED db
    /\ started' = started + 1
    /\ UNCHANGED <<account, feed, price, worker, http, faults>>

\* binance.Handler.CreateOrder with one of the given forms
BinanceCreateOrder(r, forms) ==
    /\ FreeSlot(r)
    /\ started < MaxOps
    /\ \E f \in forms : BinanceOrder(r, f)
    /\ UNCHANGED <<received, http>>

\* limit prices of the forms: below and at the price levels of the feed
LimitPrices == {24000000, 50000000}

\* the form fields of a LIMIT order of POST /fapi/v1/order
BinanceLimitForms ==
    [side : {"BUY", "SELL"}, positionSide : {"LONG", "SHORT", "BOTH"},
     quantity : Quantities, price : LimitPrices, reduceOnly : BOOLEAN]

\* binance.Handler.CreateOrder with a LIMIT order
BinanceLimitOrder(r) ==
    /\ FreeSlot(r)
    /\ started < MaxOps
    /\ \E f \in BinanceLimitForms :
          LET posSide == IF f.positionSide = "LONG" THEN "LONG"
                         ELSE IF f.positionSide = "SHORT" THEN "SHORT"
                         ELSE IF f.side = "BUY" THEN "LONG" ELSE "SHORT"
              isClosing == \/ f.positionSide = "LONG" /\ f.side = "SELL"
                           \/ f.positionSide = "SHORT" /\ f.side = "BUY"
                           \/ f.reduceOnly
          IN IF ~isClosing
             THEN OpenPositionAt(r, posSide, f.quantity, "LIMIT", f.price)
             ELSE ClosePosition(r, posSide, f.quantity, "LIMIT")
    /\ started' = started + 1
    /\ UNCHANGED <<db, account, feed, price, worker, received, http, faults>>

\* binance.Handler.CreateOrder with a market order, the form kept for the record
BinanceReceives(r) ==
    \E f \in BinanceMarketForms :
        /\ BinanceOrder(r, f)
        /\ received' = [venue |-> "binance", side |-> f.side,
                        positionSide |-> f.positionSide, reduceOnly |-> f.reduceOnly]

\* okx.Handler.CreateOrder: POST /api/v5/trade/order with a market order. posSide long is
\* LONG and anything else SHORT; reduceOnly alone decides between open and close, side is
\* not read
OKXCreateOrder(r) ==
    /\ FreeSlot(r)
    /\ started < MaxOps
    /\ \E side \in {"buy", "sell"}, pos \in {"long", "short"}, sz \in Quantities,
          reduceOnly \in BOOLEAN :
          LET posSide == IF pos = "long" THEN "LONG" ELSE "SHORT"
          IN /\ IF ~reduceOnly
                THEN OpenPosition(r, posSide, sz, "MARKET")
                ELSE ClosePosition(r, posSide, sz, "MARKET")
             /\ received' = [venue |-> "okx",
                             side |-> IF side = "buy" THEN "BUY" ELSE "SELL",
                             positionSide |-> posSide, reduceOnly |-> reduceOnly]
    /\ started' = started + 1
    /\ UNCHANGED <<db, account, feed, price, worker, http, faults>>

\* bybit.Handler.CreateOrder: POST /v5/order/create with a market order. The position side
\* is taken from side (Buy is LONG, anything else SHORT); positionIdx (1 the LONG side,
\* 2 the SHORT side of hedge mode) is not read; reduceOnly decides between open and close
BybitCreateOrder(r) ==
    /\ FreeSlot(r)
    /\ started < MaxOps
    /\ \E side \in {"Buy", "Sell"}, positionIdx \in {1, 2}, qty \in Quantities,
          reduceOnly \in BOOLEAN :
          LET posSide == IF side = "Buy" THEN "LONG" ELSE "SHORT"
          IN /\ IF ~reduceOnly
                THEN OpenPosition(r, posSide, qty, "MARKET")
                ELSE ClosePosition(r, posSide, qty, "MARKET")
             /\ received' = [venue |-> "bybit",
                             side |-> IF side = "Buy" THEN "BUY" ELSE "SELL",
                             positionSide |-> IF positionIdx = 1 THEN "LONG" ELSE "SHORT",
                             reduceOnly |-> reduceOnly]
    /\ started' = started + 1
    /\ UNCHANGED <<db, account, feed, price, worker, http, faults>>

\* okx.Handler.CreateAlgoOrder: POST /api/v5/trade/order-algo
OKXCreateAlgoOrder(r) ==
    /\ FreeSlot(r)
    /\ started < MaxOps
    /\ \E posSide \in {"long", "short"}, sz \in Quantities \cup {0},
          slTriggerPx \in StopPrices \cup {0}, tpTriggerPx \in StopPrices \cup {0} :
          LET side == IF posSide = "long" THEN "LONG" ELSE "SHORT"
              orderType == IF slTriggerPx # 0 THEN "STOP_MARKET"
                           ELSE IF tpTriggerPx # 0 THEN "TAKE_PROFIT"
                           ELSE ""
          IN ClosePosition(r, side, sz, orderType)
    /\ started' = started + 1
    /\ UNCHANGED <<db, account, feed, price, worker, received, http, faults>>

(***************************************************************************)
(* Specification.                                                          *)
(***************************************************************************)
\* the steps of the engine call request r is in
Handler(r) ==
    \/ OpenCreateOrder(r)
    \/ ExecUpdateOrder(r)
    \/ ExecCreateTrade(r)
    \/ ExecReadPosition(r)
    \/ ExecWritePosition(r)
    \/ ExecUpdateAccount(r)
    \/ CloseReadPosition(r)
    \/ CloseCreateOrder(r)
    \/ CloseCreateTrade(r)
    \/ CloseCreateRecord(r)
    \/ CloseDeletePosition(r)
    \/ CloseUpdatePosition(r)
    \/ CloseUpdateAccount(r)
    \/ Respond(r)

\* One order-placing request in flight at a time, through either facade endpoint, next to
\* the worker, the cancel-all endpoint, the price feed, and database writes that fail.
Next ==
    \/ BinanceCreateOrder(1, BinanceOrderForms)
    \/ OKXCreateAlgoOrder(1)
    \/ Handler(1)
    \/ WriteFails(1)
    \/ WorkerTick
    \/ WorkerStep
    \/ CancelAllOrders
    \/ OnPriceUpdate
    \/ PriceUnavailable
    \/ GetPriceFatal

Spec == Init /\ [][Next]_vars

\* Market orders of requests in flight at the same time, on a database that does not fail.
NextRace ==
    \/ \E r \in Requests : BinanceCreateOrder(r, BinanceMarketForms)
    \/ \E r \in Requests : Handler(r)
    \/ OnPriceUpdate

SpecRace == Init /\ [][NextRace]_vars

\* Market orders one after the other, with the leverage of the symbol changed in between.
NextLeverage ==
    \/ BinanceCreateOrder(1, BinanceMarketForms)
    \/ Handler(1)
    \/ SetLeverage
    \/ OnPriceUpdate

SpecLeverage == Init /\ [][NextLeverage]_vars

\* hyperliquid.Handler.PlaceOrder, POST /exchange with action order: b (is buy) gives the
\* position side, LONG for a buy and SHORT otherwise; r (reduce only) decides between open
\* and close; the order is a LIMIT order unless t names market
HyperliquidPlaceOrder(r) ==
    /\ FreeSlot(r)
    /\ started < MaxOps
    /\ \E isBuy \in BOOLEAN, quantity \in Quantities, reduceOnly \in BOOLEAN,
          orderType \in {"LIMIT", "MARKET"}, limitPrice \in LimitPrices :
          LET posSide == IF isBuy THEN "LONG" ELSE "SHORT"
          IN /\ IF ~reduceOnly
                THEN OpenPositionAt(r, posSide, quantity, orderType, limitPrice)
                ELSE ClosePosition(r, posSide, quantity, orderType)
             /\ received' = [venue |-> "hyperliquid",
                             side |-> IF isBuy THEN "BUY" ELSE "SELL",
                             positionSide |-> "BOTH", reduceOnly |-> reduceOnly]
    /\ started' = started + 1
    /\ UNCHANGED <<db, account, feed, price, worker, http, faults>>

\* Market orders one after the other through the Binance, OKX and Bybit facades.
NextFacade ==
    \/ BinanceReceives(1)
    \/ OKXCreateOrder(1)
    \/ BybitCreateOrder(1)
    \/ Handler(1)
    \/ OnPriceUpdate

SpecFacade == Init /\ [][NextFacade]_vars

\* Orders one after the other through the Bybit and Hyperliquid facades.
NextReduce ==
    \/ BybitCreateOrder(1)
    \/ HyperliquidPlaceOrder(1)
    \/ Handler(1)
    \/ OnPriceUpdate

SpecReduce == Init /\ [][NextReduce]_vars

\* Market and LIMIT orders one after the other through the Binance facade, next to the
\* cancel-all endpoint and the price feed.
NextLimit ==
    \/ BinanceCreateOrder(1, BinanceMarketForms)
    \/ BinanceLimitOrder(1)
    \/ Handler(1)
    \/ CancelAllOrders
    \/ OnPriceUpdate

SpecLimit == Init /\ [][NextLimit]_vars

\* mark prices below, at and above the trigger price
TriggerPrices == Prices \cup StopPrices

\* The worker alone, started on an account that holds one position, opened by a market
\* order at mark price p0, and one pending conditional order on the side of the position.
TriggerAccount ==
    /\ initialBalance \in InitialBalances
    /\ hedgeMode = FALSE
    /\ defaultLeverage \in Leverages
    /\ leverageCache = 0
    /\ price \in TriggerPrices
    /\ \E side \in {"LONG", "SHORT"}, quantity \in Quantities, p0 \in Prices,
          orderType \in ConditionalTypes, stopPrice \in StopPrices, closePosition \in BOOLEAN :
          LET exec == OpenExecutionPrice(p0, side, "MARKET", 0)
              margin == MarginFor(exec * quantity, defaultLeverage)
              fee == TakerFee(exec * quantity)
          IN /\ ~BalanceShort(initialBalance, margin, fee)
             /\ balance = initialBalance - (margin + fee)
             /\ positions = <<NewPosition(side, quantity, exec, margin, defaultLeverage)>>
             /\ trades = <<[order |-> 1, qty |-> quantity, price |-> exec, fee |-> fee,
                            realizedPnL |-> 0, isMaker |-> FALSE, margin |-> margin]>>
             /\ orders = <<[type |-> "MARKET", side |-> getSide(side, TRUE),
                            positionSide |-> side, qty |-> quantity, stopPrice |-> 0,
                            filledQty |-> quantity, avgPrice |-> exec, status |-> "FILLED",
                            reduceOnly |-> FALSE, closePosition |-> FALSE, trigger |-> 0],
                           [type |-> orderType, side |-> getSide(side, FALSE),
                            positionSide |-> side,
                            qty |-> IF closePosition THEN 0 ELSE SymbolInfo.MinQty,
                            stopPrice |-> stopPrice, filledQty |-> 0, avgPrice |-> 0,
                            status |-> "NEW", reduceOnly |-> ~closePosition,
                            closePosition |-> closePosition, trigger |-> 0]>>
    /\ closedPnL = <<>>
    /\ req = [r \in Requests |-> IdleReq]
    /\ worker = IdleWorker
    /\ started = 2
    /\ faults = 0
    /\ FeedInit
    /\ received = NoForm
    /\ http = NoRequest

\* the account is bound to Binance
InitTrigger ==
    /\ TriggerAccount
    /\ exchangeType = "binance"
    /\ okxPrice = NoPrice

\* venues an account is bound to
Venues == {"binance", "okx"}

\* the account is bound to Binance or to OKX and both venues stream a mark price
InitVenue ==
    /\ TriggerAccount
    /\ exchangeType \in Venues
    /\ okxPrice \in TriggerPrices

NextTrigger ==
    \/ WorkerTick
    \/ WorkerStep

SpecTrigger == InitTrigger /\ [][NextTrigger]_vars

\* the handler of a single-order cancel request answers: 200 with success, or the error
CancelAnswer(facade, oid, err) ==
    /\ req[1].pc = "idle"
    /\ req' = [req EXCEPT ![1] = [IdleReq EXCEPT !.pc = "respond", !.op = "cancel",
                                                 !.otype = facade, !.oid = oid,
                                                 !.bal = balance, !.err = err]]
    /\ UNCHANGED <<db, account, feed, price, worker, started, received, http, faults>>

\* binance.Handler.CancelOrder, DELETE /fapi/v1/order: GetOrderStatus reads the row and
\* the answer says status CANCELED; no statement writes the row
BinanceCancelOrder ==
    \E orderId \in 1..(Len(orders) + 1) :
        CancelAnswer("binance", orderId,
                     IF orderId \in DOMAIN orders THEN "" ELSE "UnknownOrder")

\* binance.Handler.CancelAlgoOrder, DELETE /fapi/v1/algoOrder: answers success for any
\* algoId; the engine is not called
BinanceCancelAlgoOrder ==
    \E algoId \in 1..(Len(orders) + 1) : CancelAnswer("binance-algo", algoId, "")

\* okx.Handler.CancelAlgoOrder, POST /api/v5/trade/cancel-algos: sCode 0 for every algoId
\* of the request; the engine is not called
OKXCancelAlgoOrder ==
    \E algoId \in 1..(Len(orders) + 1) : CancelAnswer("okx-algo", algoId, "")

\* bybit.Handler.CancelOrder, POST /v5/order/cancel: retCode 0 for any orderId; the engine
\* is not called
BybitCancelOrder ==
    \E orderId \in 1..(Len(orders) + 1) : CancelAnswer("bybit", orderId, "")

\* The worker on an account that holds a position and a pending conditional order, next to
\* the cancel endpoints of the facades and the price feed.
NextCancel ==
    \/ WorkerTick
    \/ WorkerStep
    \/ CancelAllOrders
    \/ BinanceCancelOrder
    \/ BinanceCancelAlgoOrder
    \/ OKXCancelAlgoOrder
    \/ BybitCancelOrder
    \/ Respond(1)
    \/ OnPriceUpdate

\* PriceService.OnPriceUpdate of the OKX client: OKX streams a new mark price
OKXPriceUpdate ==
    /\ ProcessUp
    /\ \E p \in TriggerPrices : okxPrice' = p
    /\ okxPrice' # okxPrice
    /\ UNCHANGED <<db, account, now, prices, pricesMux, redis, result, stream, price, req,
                   worker, started, received, http, faults>>

\* The worker on an account bound to Binance or to OKX, both venues streaming prices.
NextVenue ==
    \/ WorkerTick
    \/ WorkerStep
    \/ OnPriceUpdate
    \/ OKXPriceUpdate

SpecVenue == InitVenue /\ [][NextVenue]_vars

SpecCancel == InitTrigger /\ [][NextCancel]_vars

\* TradingService.SetStopLoss: the level is written into the row of the position
SetStopLoss(rows, side, stopLoss) ==
    LET id == GetByAccountIDSymbolAndSide(side)
    IN IF id = 0 THEN rows ELSE [rows EXCEPT ![id].stopLoss = stopLoss]

\* TradingService.SetTakeProfit: the level is written into the row of the position
SetTakeProfit(rows, side, takeProfit) ==
    LET id == GetByAccountIDSymbolAndSide(side)
    IN IF id = 0 THEN rows ELSE [rows EXCEPT ![id].takeProfit = takeProfit]

\* bybit.Handler.SetTradingStop, POST /v5/position/trading-stop: positionIdx 2 is SHORT,
\* anything else LONG; a level greater than zero is set, the engine's error is dropped
SetTradingStop ==
    /\ \E positionIdx \in {0, 1, 2}, stopLoss \in StopPrices \cup {0},
          takeProfit \in StopPrices \cup {0} :
          LET posSide == IF positionIdx = 2 THEN "SHORT" ELSE "LONG"
              afterSL == IF stopLoss > 0 THEN SetStopLoss(positions, posSide, stopLoss)
                         ELSE positions
          IN positions' = IF takeProfit > 0 THEN SetTakeProfit(afterSL, posSide, takeProfit)
                          ELSE afterSL
    /\ positions' # positions
    /\ UNCHANGED <<balance, orders, trades, closedPnL, account, feed, price, req, worker,
                   started, received, http, faults>>

\* The worker on an account that holds a position, next to the trading-stop endpoint, the
\* cancel-all endpoint and the price feed.
NextStop ==
    \/ SetTradingStop
    \/ WorkerTick
    \/ WorkerStep
    \/ CancelAllOrders
    \/ OnPriceUpdate

SpecStop == InitTrigger /\ [][NextStop]_vars

\* the worker's goroutine runs on a one-second ticker and its loop does not block
SpecStopLive ==
    /\ SpecStop
    /\ WF_vars(WorkerTick)
    /\ WF_vars(WorkerStep)

(***************************************************************************)
(* The price service in detail: one (venue, symbol) entry of the table in  *)
(* memory, its copy in Redis, the read-write lock of the table and the     *)
(* wall clock.  Times are in seconds.                                      *)
(***************************************************************************)
\* an update is served from memory while now - Timestamp < 5000 ms
StaleAfter == 5
\* the Redis key of an update expires 5 s after it was written
RedisExpire == 5

\* the wall clock runs up to MaxClock
MaxClock == 7
\* source clock minus wall clock, in seconds, at the moment an update is received
Skews == {0 - 6, 0, 6}

\* time passes
ClockTick ==
    /\ ProcessUp
    /\ now < MaxClock
    /\ now' = now + 1
    /\ result' = NoResult
    /\ UNCHANGED <<db, account, stream, okxPrice, price, req, worker, started, received, http, faults, prices, pricesMux, redis>>

\* handleMessage of a venue client and PriceService.OnPriceUpdate: the update carries the
\* venue's event time as its Timestamp; it is stored under the write lock, which waits for
\* the reader count to be zero, then written to Redis with an expiry
StorePriceUpdate ==
    /\ ProcessUp
    /\ pricesMux.readerCount = 0
    /\ \E p \in Prices, skew \in Skews :
          /\ prices' = [Price |-> p, Timestamp |-> now + skew, received |-> now]
          /\ redis' = [Price |-> p, expires |-> now + RedisExpire]
    /\ result' = NoResult
    /\ UNCHANGED <<db, account, stream, okxPrice, price, req, worker, started, received, http, faults, now, pricesMux>>

\* another goroutine takes the read lock of the table (GetPriceUpdate, GetAllPrices, or
\* another GetPrice between its RLock and its RUnlock)
ReaderRLock ==
    /\ ProcessUp
    /\ pricesMux.inside = 0
    /\ pricesMux' = [readerCount |-> pricesMux.readerCount + 1, inside |-> 1]
    /\ result' = NoResult
    /\ UNCHANGED <<db, account, stream, okxPrice, price, req, worker, started, received, http, faults, now, prices, redis>>

\* sync.RWMutex.RUnlock of that goroutine: a reader count that goes below zero is the
\* fatal error "sync: RUnlock of unlocked RWMutex", which ends the process
ReaderRUnlock ==
    /\ ProcessUp
    /\ pricesMux.inside = 1
    /\ pricesMux' = [readerCount |-> pricesMux.readerCount - 1, inside |-> 0]
    /\ IF pricesMux.readerCount - 1 < 0
       THEN /\ worker' = [IdleWorker EXCEPT !.pc = "down"]
            /\ req' = [r \in Requests |-> DownReq]
       ELSE UNCHANGED <<worker, req>>
    /\ result' = NoResult
    /\ UNCHANGED <<db, account, stream, okxPrice, price, started, received, http, faults, now, prices, redis>>

\* the part of GetPrice after the table in memory: Redis, then the venue's REST quote
\* (rest is what the venue answers, NoPrice when the request fails)
Fallback(rest) ==
    IF redis.Price # NoPrice /\ now < redis.expires
    THEN [status |-> "price", value |-> redis.Price, from |-> "redis"]
    ELSE IF rest # NoPrice
         THEN [status |-> "price", value |-> rest, from |-> "rest"]
         ELSE [status |-> "error", value |-> NoPrice, from |-> ""]

\* PriceService.GetPrice(venue, symbol). RLock; when the entry is there, RUnlock and the
\* staleness test on its Timestamp; an entry that fails the test falls through to the
\* second RUnlock
GetPrice ==
    /\ ProcessUp
    /\ result = NoResult
    /\ \E rest \in Prices \cup {NoPrice} :
          IF prices.Price # NoPrice
          THEN IF now - prices.Timestamp < StaleAfter
               THEN /\ result' = [status |-> "price", value |-> prices.Price,
                                  from |-> "memory"]
                    /\ UNCHANGED <<pricesMux, worker, req>>
               ELSE IF pricesMux.readerCount - 1 < 0
                    THEN /\ result' = [status |-> "fatal", value |-> NoPrice, from |-> ""]
                         /\ pricesMux' = [pricesMux EXCEPT !.readerCount = @ - 1]
                         /\ worker' = [IdleWorker EXCEPT !.pc = "down"]
                         /\ req' = [r \in Requests |-> DownReq]
                    ELSE /\ result' = Fallback(rest)
                         /\ pricesMux' = [pricesMux EXCEPT !.readerCount = @ - 1]
                         /\ UNCHANGED <<worker, req>>
          ELSE /\ result' = Fallback(rest)
               /\ UNCHANGED <<pricesMux, worker, req>>
    /\ UNCHANGED <<db, account, stream, okxPrice, price, started, received, http, faults, now, prices, redis>>

\* the caller has the outcome of its call
GetPriceReturns ==
    /\ ProcessUp
    /\ result # NoResult
    /\ result' = NoResult
    /\ UNCHANGED <<db, account, stream, okxPrice, price, req, worker, started, received, http, faults, now, prices, pricesMux,
                   redis>>

NextPrice ==
    \/ ClockTick
    \/ StorePriceUpdate
    \/ ReaderRLock
    \/ ReaderRUnlock
    \/ GetPrice
    \/ GetPriceReturns

SpecPrice == Init /\ [][NextPrice]_vars

(***************************************************************************)
(* A venue client in detail (the four clients are the same code): the      *)
(* socket, the read loop with its reconnect loop, the ping loop, Subscribe *)
(* and Close, next to a venue that comes and goes.                         *)
(***************************************************************************)
\* reconnectDelay = 5 * time.Second
reconnectDelay == 5
maxReconnectAttempts == 10

\* the symbols a caller subscribes to
Symbols == {"BTCUSDT", "ETHUSDT"}

\* what the venue client leaves alone
engine == <<db, account, price, okxPrice, started, received, http, faults, now, pricesMux, redis,
           result>>

\* an unrecovered panic in a goroutine ends the process
Panic ==
    /\ worker' = [IdleWorker EXCEPT !.pc = "down"]
    /\ req' = [r \in Requests |-> DownReq]

\* connMux is free for a writer: no connect() is dialing and no subscribe is writing
ConnMuxFree == routines.messageLoop # "dial" /\ routines.subscribe # "write"

\* a reconnect loop that makes one attempt more than the cap
MayRetryOnceMore(reconnectAttempts) == reconnectAttempts <= maxReconnectAttempts

\* handleDisconnect, `for c.reconnectAttempts < maxReconnectAttempts`
MayRetry(reconnectAttempts) == reconnectAttempts < maxReconnectAttempts

\* a connect() that starts a read loop whoever calls it
StartsMessageLoopAlways(caller) == TRUE

\* who starts a read loop: Connect does, the connect() of a reconnect does not
StartsMessageLoop(caller) == caller = "Connect"

\* connect() succeeded: the fields it sets and the resubscription it starts
connected ==
    /\ client' = [client EXCEPT !.conn = "open", !.isConnected = TRUE,
                                !.reconnectAttempts = 0]
    /\ venue' = [venue EXCEPT !.streams = {}]

\* a connect() that starts no resubscription
resubscribeNothing(r) == r

\* `go c.subscribe(symbols)` at the end of connect(), when there is a symbol to send
resubscribe(r) ==
    IF client.subscribed # {}
    THEN [r EXCEPT !.subscribe = "check", !.symbols = r.symbols \cup client.subscribed]
    ELSE r

\* Client.Connect, called once by PriceService.Start: a context, connect(), and when that
\* succeeded the read loop and the ping loop
Connect ==
    /\ ProcessUp
    /\ routines.Connect = "none"
    /\ IF venue.reachable
       THEN /\ connected
            /\ routines' = [resubscribe(routines) EXCEPT !.Connect = "done",
                                                         !.messageLoop = "top",
                                                         !.pingLoop = "run"]
            /\ episode' = [episode EXCEPT !.loopsStarted = @ + 1]
       ELSE /\ routines' = [routines EXCEPT !.Connect = "failed"]
            /\ UNCHANGED <<client, venue, episode>>
    /\ UNCHANGED <<engine, prices, req, worker>>

\* messageLoop, head of the loop: return when the context is done; sleep when there is no
\* socket; else block in ReadMessage
LoopTop ==
    /\ ProcessUp
    /\ routines.messageLoop = "top"
    /\ routines' = [routines EXCEPT !.messageLoop =
                        IF client.cancelled THEN "exit"
                        ELSE IF client.conn = "nil" THEN "sleep" ELSE "read"]
    /\ UNCHANGED <<engine, prices, req, worker, client, venue, episode>>

\* messageLoop, time.Sleep(100 ms) while conn is nil
LoopSleep ==
    /\ ProcessUp
    /\ routines.messageLoop = "sleep"
    /\ routines' = [routines EXCEPT !.messageLoop = "top"]
    /\ UNCHANGED <<engine, prices, req, worker, client, venue, episode>>

\* messageLoop, ReadMessage returns: a mark-price message of a stream the socket is
\* subscribed to, or an error when the socket was lost or was closed by Close
LoopRead ==
    /\ ProcessUp
    /\ routines.messageLoop = "read"
    /\ IF client.conn = "open"
       THEN /\ venue.streams # {}
            /\ \E p \in Prices :
                  episode' = [episode EXCEPT !.message = p, !.lastRead = p]
            /\ routines' = [routines EXCEPT !.messageLoop = "handle"]
       ELSE /\ routines' = [routines EXCEPT !.messageLoop = "disconnect"]
            /\ UNCHANGED episode
    /\ UNCHANGED <<engine, prices, req, worker, client, venue>>

\* handleMessage and PriceService.OnPriceUpdate, in the read loop's goroutine
LoopHandleMessage ==
    /\ ProcessUp
    /\ routines.messageLoop = "handle"
    /\ pricesMux.readerCount = 0
    /\ prices' = [Price |-> episode.message, Timestamp |-> now, received |-> now]
    /\ episode' = [episode EXCEPT !.message = NoPrice]
    /\ routines' = [routines EXCEPT !.messageLoop = "top"]
    /\ UNCHANGED <<engine, req, worker, client, venue>>

\* the reconnect loop comes to its select: with the context already done the select takes
\* that case at once and handleDisconnect returns to the read loop; else it waits
AwaitRetry == IF client.cancelled THEN "top" ELSE "retry"

\* handleDisconnect, first part: under connMux, drop the socket
HandleDisconnect ==
    /\ ProcessUp
    /\ routines.messageLoop = "disconnect"
    /\ ConnMuxFree
    /\ client' = [client EXCEPT !.conn = "nil", !.isConnected = FALSE]
    /\ routines' = [routines EXCEPT !.messageLoop = AwaitRetry]
    /\ UNCHANGED <<engine, prices, req, worker, venue, episode>>

\* handleDisconnect, the reconnect loop: while reconnectAttempts < maxReconnectAttempts,
\* return when the context is done, or wait reconnectDelay, count the attempt and enter
\* connect(), which dials under connMux; at the cap, log and return to the read loop. A
\* context cancelled during the wait may find the timer ready as well: select takes either
HandleDisconnectRetry ==
    /\ ProcessUp
    /\ routines.messageLoop = "retry"
    /\ IF MayRetry(client.reconnectAttempts)
       THEN \/ /\ client.cancelled
               /\ routines' = [routines EXCEPT !.messageLoop = "top"]
               /\ UNCHANGED <<client, episode>>
            \/ /\ routines.subscribe # "write"
               /\ client' = [client EXCEPT !.reconnectAttempts = @ + 1]
               /\ episode' = [episode EXCEPT !.dials = @ + 1, !.lastWait = reconnectDelay]
               /\ routines' = [routines EXCEPT !.messageLoop = "dial"]
       ELSE /\ routines' = [routines EXCEPT !.messageLoop = "top"]
            /\ UNCHANGED <<client, episode>>
    /\ UNCHANGED <<engine, prices, req, worker, venue>>

\* connect() of a reconnect attempt: the dial ends, within its handshake timeout; on
\* success handleDisconnect returns to the read loop, on failure it goes round again
Dial ==
    /\ ProcessUp
    /\ routines.messageLoop = "dial"
    /\ IF venue.reachable
       THEN /\ connected
            /\ routines' = [resubscribe(routines) EXCEPT !.messageLoop = "top"]
            /\ episode' = [episode EXCEPT
                               !.dials = 0, !.lastWait = 0, !.reconnected = TRUE,
                               !.loopsStarted =
                                   @ + IF StartsMessageLoop("handleDisconnect") THEN 1 ELSE 0]
       ELSE /\ routines' = [routines EXCEPT !.messageLoop = AwaitRetry]
            /\ UNCHANGED <<client, venue, episode>>
    /\ UNCHANGED <<engine, prices, req, worker>>

\* pingLoop returns when the context is done
PingLoopExit ==
    /\ ProcessUp
    /\ routines.pingLoop = "run"
    /\ client.cancelled
    /\ routines' = [routines EXCEPT !.pingLoop = "exit"]
    /\ UNCHANGED <<engine, prices, req, worker, client, venue, episode>>

\* pingLoop writes its pong frame while subscribe is writing on the same socket (both hold
\* connMux for reading only): the socket library either panics on the concurrent write or
\* the frames get mixed and the venue drops the socket
PingCollides ==
    /\ ProcessUp
    /\ routines.pingLoop = "run"
    /\ ~client.cancelled
    /\ routines.subscribe = "write"
    /\ client.conn = "open"
    /\ \/ Panic /\ UNCHANGED client
       \/ client' = [client EXCEPT !.conn = "lost"] /\ UNCHANGED <<req, worker>>
    /\ UNCHANGED <<engine, prices, routines, venue, episode>>

\* Client.Subscribe: the symbols go into c.subscribed, then subscribe(symbols)
Subscribe ==
    /\ ProcessUp
    /\ routines.Connect # "none"
    /\ routines.subscribe = "none"
    /\ \E symbols \in (SUBSET Symbols) \ {{}} :
          /\ ~(symbols \subseteq client.subscribed)
          /\ client' = [client EXCEPT !.subscribed = @ \cup symbols]
          /\ routines' = [routines EXCEPT !.subscribe = "check", !.symbols = symbols]
    /\ UNCHANGED <<engine, prices, req, worker, venue, episode>>

\* Client.Unsubscribe: the symbols leave c.subscribed and, on an open socket, the venue
Unsubscribe ==
    /\ ProcessUp
    /\ routines.Connect # "none"
    /\ ConnMuxFree
    /\ \E symbol \in client.subscribed :
          /\ client' = [client EXCEPT !.subscribed = @ \ {symbol}]
          /\ venue' = IF client.isConnected /\ client.conn = "open"
                      THEN [venue EXCEPT !.streams = @ \ {symbol}]
                      ELSE venue
    /\ UNCHANGED <<engine, prices, req, worker, routines, episode>>

\* subscribe, `if !c.IsConnected()`: not connected is an error and nothing is sent
SubscribeCheck ==
    /\ ProcessUp
    /\ routines.subscribe = "check"
    /\ routines.messageLoop # "dial"
    /\ routines' = IF client.isConnected
                   THEN [routines EXCEPT !.subscribe = "ready"]
                   ELSE [routines EXCEPT !.subscribe = "none", !.symbols = {}]
    /\ UNCHANGED <<engine, prices, req, worker, client, venue, episode>>

\* subscribe, connMux.RLock and c.conn.WriteJSON: a conn that became nil since the check is
\* a nil pointer dereference
SubscribeWrite ==
    /\ ProcessUp
    /\ routines.subscribe = "ready"
    /\ routines.messageLoop # "dial"
    /\ IF client.conn = "nil"
       THEN Panic /\ UNCHANGED routines
       ELSE routines' = [routines EXCEPT !.subscribe = "write"] /\ UNCHANGED <<req, worker>>
    /\ UNCHANGED <<engine, prices, client, venue, episode>>

\* subscribe, the frame is out (or the write failed on a lost socket); RUnlock
SubscribeSent ==
    /\ ProcessUp
    /\ routines.subscribe = "write"
    /\ venue' = IF client.conn = "open"
                THEN [venue EXCEPT !.streams = @ \cup routines.symbols]
                ELSE venue
    /\ routines' = [routines EXCEPT !.subscribe = "none", !.symbols = {}]
    /\ UNCHANGED <<engine, prices, req, worker, client, episode>>

\* Client.Close, `c.cancel()`
CloseCancel ==
    /\ ProcessUp
    /\ routines.Connect # "none"
    /\ routines.Close = "none"
    /\ client' = [client EXCEPT !.cancelled = TRUE]
    /\ routines' = [routines EXCEPT !.Close = "lock"]
    /\ UNCHANGED <<engine, prices, req, worker, venue, episode>>

\* Client.Close, under connMux: close the socket, conn = nil, isConnected = false
CloseConn ==
    /\ ProcessUp
    /\ routines.Close = "lock"
    /\ ConnMuxFree
    /\ client' = [client EXCEPT !.conn = "nil", !.isConnected = FALSE]
    /\ routines' = [routines EXCEPT !.Close = "wait"]
    /\ UNCHANGED <<engine, prices, req, worker, venue, episode>>

\* Client.Close, `c.wg.Wait()`: the read loop and the ping loop have returned
CloseWait ==
    /\ ProcessUp
    /\ routines.Close = "wait"
    /\ routines.messageLoop \in {"none", "exit"}
    /\ routines.pingLoop \in {"none", "exit"}
    /\ routines' = [routines EXCEPT !.Close = "returned"]
    /\ UNCHANGED <<engine, prices, req, worker, client, venue, episode>>

\* the network: the venue becomes unreachable, and an open socket to it is lost
VenueDown ==
    /\ ProcessUp
    /\ venue.reachable
    /\ venue' = [venue EXCEPT !.reachable = FALSE]
    /\ client' = [client EXCEPT !.conn = IF @ = "open" THEN "lost" ELSE @]
    /\ UNCHANGED <<engine, prices, req, worker, routines, episode>>

\* the network: the venue is reachable again
VenueUp ==
    /\ ProcessUp
    /\ ~venue.reachable
    /\ venue' = [venue EXCEPT !.reachable = TRUE]
    /\ UNCHANGED <<engine, prices, req, worker, client, routines, episode>>

\* the network: an open socket is lost while the venue stays reachable
SocketLost ==
    /\ ProcessUp
    /\ client.conn = "open"
    /\ client' = [client EXCEPT !.conn = "lost"]
    /\ UNCHANGED <<engine, prices, req, worker, routines, venue, episode>>

\* the steps of the read loop's goroutine
MessageLoop ==
    \/ LoopTop
    \/ LoopSleep
    \/ LoopRead
    \/ LoopHandleMessage
    \/ HandleDisconnect
    \/ HandleDisconnectRetry
    \/ Dial

\* the steps of a subscribe call
SubscribeCall ==
    \/ SubscribeCheck
    \/ SubscribeWrite
    \/ SubscribeSent

\* the steps of Close after its cancel
CloseCall ==
    \/ CloseConn
    \/ CloseWait

NextClient ==
    \/ Connect
    \/ MessageLoop
    \/ PingLoopExit
    \/ PingCollides
    \/ Subscribe
    \/ Unsubscribe
    \/ SubscribeCall
    \/ CloseCancel
    \/ CloseCall
    \/ VenueDown
    \/ VenueUp
    \/ SocketLost

SpecClient == Init /\ [][NextClient]_vars

\* the scheduler runs every goroutine that can take a step, and a dial, a sleep and a wait
\* for reconnectDelay all end; a goroutine that waits for connMux as a writer gets it
\* (sync.RWMutex holds new readers back while a writer waits), hence the strong fairness
\* of the read loop and of Close; the network and the callers of Subscribe, Unsubscribe
\* and Close are under no obligation
SpecClientLive ==
    /\ SpecClient
    /\ SF_vars(MessageLoop)
    /\ WF_vars(PingLoopExit)
    /\ WF_vars(SubscribeCall)
    /\ SF_vars(CloseCall)

(***************************************************************************)
(* BinanceAuthMiddleware: the gate in front of every private route of the  *)
(* Binance facade.  An HMAC is a pair of the key and the message it was    *)
(* computed over: two signatures are equal exactly when both agree.        *)
(***************************************************************************)
\* the timestamp window of the middleware, in milliseconds
SkewWindow == 300000

\* time.Now().UnixMilli() when the request is checked
ServerTimeMs == 100000

\* the arithmetic on timestamps is Go's int64 arithmetic, here at a width of IntBits bits
IntBits == 20
IntMin == 0 - 2^(IntBits - 1)
Wrap(n) == ((n - IntMin) % 2^IntBits) + IntMin

\* abs: -n of the least integer is the least integer again
abs(n) == IF n < 0 THEN Wrap(0 - n) ELSE n

\* strconv.ParseInt of the timestamp parameter: the window's edges, one millisecond past
\* them, the timestamp half the integer range away, and a text that is no number
Timestamps ==
    {[err |-> FALSE, v |-> ServerTimeMs + d] :
        d \in {0, 0 - SkewWindow, 0 - SkewWindow - 1, SkewWindow + 1, IntMin}}
    \cup {[err |-> TRUE, v |-> 0]}

\* accountService.GetAccountByAPIKey and crypto.DecryptAES: the accounts by API key
APIKeys == {"", "unknown", "binance-key", "okx-key", "undecryptable-key"}
ExchangeTypeOf(apiKey) == IF apiKey = "okx-key" THEN "okx" ELSE "binance"
APISecret == "secret"

\* hmac.New(sha256.New, secret) over a message, hex encoded
Hmac(secret, message) == [key |-> secret, message |-> message]
NoSignature == [key |-> "", message |-> <<>>]

\* the parameters of a request other than signature, in the order they were written
ParamLists == {<<>>, <<"symbol">>, <<"timestamp">>, <<"symbol", "timestamp">>,
               <<"timestamp", "symbol">>}

Keys(params) == {params[i] : i \in DOMAIN params}

\* url.Values.Encode: the parameters sorted by key
Encode(keys) ==
    IF keys = {"symbol", "timestamp"} THEN <<"symbol", "timestamp">>
    ELSE IF keys = {"symbol"} THEN <<"symbol">>
    ELSE IF keys = {"timestamp"} THEN <<"timestamp">>
    ELSE <<>>

\* c.Request.PostForm: net/http parses a urlencoded body of POST, PUT and PATCH only
PostForm(h) == IF h.method = "POST" /\ h.contentType = "form" THEN h.form ELSE <<>>

\* the message the client computed its signature over
SignedMessage(h) ==
    IF h.signed.over = "query" THEN h.query
    ELSE IF h.signed.over = "encoded" THEN Encode(Keys(h.form) \cup Keys(h.query))
    ELSE <<"other">>

\* the signature parameter the client sent
Signature(h) == Hmac(h.signed.secret, SignedMessage(h))

\* verifyBinanceSignature: the signature from the query, else from the form; the message
\* is the encoded form and query for a form body of POST, PUT and DELETE and the raw query,
\* signature removed, otherwise
verifyBinanceSignature(h, apiSecret) ==
    LET fromQuery == IF h.sigIn = "query" THEN Signature(h) ELSE NoSignature
        fromForm == IF h.sigIn = "form" /\ PostForm(h) # <<>> THEN Signature(h)
                    ELSE NoSignature
        providedSig == IF fromQuery # NoSignature THEN fromQuery ELSE fromForm
        queryString == IF h.method \in {"POST", "DELETE"} /\ h.contentType = "form"
                       THEN Encode(Keys(PostForm(h)) \cup Keys(h.query))
                       ELSE h.query
    IN /\ providedSig # NoSignature
       /\ providedSig = Hmac(apiSecret, queryString)

\* the middleware verifies the signature of every request but a GET without one
MustVerify(h) == h.method # "GET" \/ h.sigIn = "query"

\* the middleware checks the timestamp when the query carries one
MustCheckTime(h) == "timestamp" \in Keys(h.query)

\* a request arrives at a private route of the Binance facade
Request ==
    /\ http = NoRequest
    /\ \E method \in {"GET", "POST", "DELETE"}, apiKey \in APIKeys,
          contentType \in {"form", "json"}, query \in ParamLists,
          form \in {<<>>, <<"timestamp">>, <<"symbol", "timestamp">>},
          sigIn \in {"none", "query", "form"}, secret \in {APISecret, "guess"},
          over \in {"query", "encoded", "other"}, timestamp \in Timestamps :
          http' = [pc |-> "received", method |-> method, apiKey |-> apiKey,
                   contentType |-> contentType, query |-> query, form |-> form,
                   sigIn |-> sigIn, signed |-> [secret |-> secret, over |-> over],
                   timestamp |-> timestamp, status |-> 0, code |-> 0]
    /\ UNCHANGED <<db, account, feed, price, req, worker, started, received, faults>>

\* BinanceAuthMiddleware: the answer of the middleware, or c.Next() into the handler
BinanceAuthMiddleware ==
    /\ http # NoRequest
    /\ http.pc = "received"
    /\ LET abort(status, code) ==
               http' = [http EXCEPT !.pc = "aborted", !.status = status, !.code = code]
       IN IF http.apiKey = "" THEN abort(401, 0 - 2015)
          ELSE IF http.apiKey = "unknown" THEN abort(401, 0 - 2015)
          ELSE IF ExchangeTypeOf(http.apiKey) # "binance" THEN abort(401, 0 - 2015)
          ELSE IF http.apiKey = "undecryptable-key" THEN abort(500, 0 - 1)
          ELSE IF MustVerify(http) /\ ~verifyBinanceSignature(http, APISecret)
               THEN abort(401, 0 - 1022)
          ELSE IF /\ MustCheckTime(http)
                  /\ \/ http.timestamp.err
                     \/ abs(Wrap(ServerTimeMs - http.timestamp.v)) > SkewWindow
               THEN abort(400, 0 - 1021)
          ELSE http' = [http EXCEPT !.pc = "served"]
    /\ UNCHANGED <<db, account, feed, price, req, worker, started, received, faults>>

\* the answer is written and the connection is done
Answered ==
    /\ http # NoRequest
    /\ http.pc \in {"aborted", "served"}
    /\ http' = NoRequest
    /\ UNCHANGED <<db, account, feed, price, req, worker, started, received, faults>>

NextAuth ==
    \/ Request
    \/ BinanceAuthMiddleware
    \/ Answered

SpecAuth == Init /\ [][NextAuth]_vars

(***************************************************************************)
(* Properties.                                                             *)
(***************************************************************************)
\* no engine call is in flight: the state between operations
Quiescent == \A r \in Requests : req[r].pc = "idle"

LivePositions == {i \in DOMAIN positions : positions[i].live}

\* trades of opens and trades of closes, by the order each belongs to
OpenTrades(side) ==
    {i \in DOMAIN trades : /\ ~orders[trades[i].order].reduceOnly
                           /\ orders[trades[i].order].positionSide = side}
CloseTrades(side) ==
    {i \in DOMAIN trades : /\ orders[trades[i].order].reduceOnly
                           /\ orders[trades[i].order].positionSide = side}

RECURSIVE SumOver(_, _)
SumOver(S, f) == IF S = {} THEN 0
                 ELSE LET x == CHOOSE x \in S : TRUE IN f[x] + SumOver(S \ {x}, f)

TradeQty == [i \in DOMAIN trades |-> trades[i].qty]
TradeMargin == [i \in DOMAIN trades |-> trades[i].margin]
TradeCost == [i \in DOMAIN trades |-> trades[i].margin + trades[i].fee]
TradeNet == [i \in DOMAIN trades |-> trades[i].realizedPnL - trades[i].fee]
PositionMargin == [i \in DOMAIN positions |-> positions[i].margin]

\* the close orders the worker created for conditional order o
TriggeredCloses(o) == {i \in DOMAIN orders : orders[i].trigger = o}

\* C1: after every completed engine operation the balance of the account is >= 0
\* (stated for the market opens and the closes clients ask for, on a database whose
\* writes all succeed)
BalanceNonNegative ==
    (Quiescent /\ faults = 0 /\ \A i \in DOMAIN orders : orders[i].trigger = 0) =>
        balance >= 0

\* C2: market opens that run concurrently leave what some serial order of them leaves:
\* once they have returned, the balance is the starting balance minus the margin + fee of
\* every open that went through, and those costs fit into the starting balance (an open
\* the balance does not cover is rejected)
ConcurrentOpensSerial ==
    (Quiescent /\ CloseTrades("LONG") \cup CloseTrades("SHORT") = {}) =>
        /\ balance = initialBalance - SumOver(DOMAIN trades, TradeCost)
        /\ SumOver(DOMAIN trades, TradeCost) <= initialBalance

\* C3: closes that run concurrently never close more than was opened on a side, never
\* give back more margin than was locked on it, and leave one ClosedPnLRecord per
\* position row that was closed in full
ConcurrentClosesBounded ==
    /\ \A side \in {"LONG", "SHORT"} :
          /\ SumOver(CloseTrades(side), TradeQty) <= SumOver(OpenTrades(side), TradeQty)
          /\ SumOver(CloseTrades(side), TradeMargin) <= SumOver(OpenTrades(side), TradeMargin)
    /\ \A i, j \in DOMAIN closedPnL :
          closedPnL[i].position = closedPnL[j].position => i = j

\* C4: between operations, balance = initial_balance + the sum over all trades of
\* (realisedPnL - fee) - the sum over the open positions of their margin, within 1e-6
AccountingIdentity ==
    Quiescent =>
        Abs(balance - (initialBalance + SumOver(DOMAIN trades, TradeNet)
                                      - SumOver(LivePositions, PositionMargin))) <= 1

\* C5: a call is all-or-nothing: once it has returned, failed or not, every order that
\* was filled has its trade, every trade belongs to a filled order, and the position
\* and balance changes of every trade are there
AllOrNothing ==
    Quiescent =>
        /\ \A i \in DOMAIN orders :
              orders[i].filledQty > 0 =>
                  /\ orders[i].status = "FILLED"
                  /\ \E t \in DOMAIN trades : trades[t].order = i
        /\ \A side \in {"LONG", "SHORT"} :
              SumOver(OpenTrades(side), TradeQty) - SumOver(CloseTrades(side), TradeQty)
                  = SumOver({i \in LivePositions : positions[i].side = side},
                            [i \in DOMAIN positions |-> positions[i].qty])
        /\ balance = initialBalance + SumOver(DOMAIN trades, TradeNet)
                                    - SumOver(LivePositions, PositionMargin)

TerminalStatuses == {"CANCELED", "FILLED", "EXPIRED", "REJECTED"}

\* C6: an order that is CANCELED, FILLED, EXPIRED or REJECTED is never changed again
TerminalOrdersFrozen ==
    [][\A i \in DOMAIN orders :
          orders[i].status \in TerminalStatuses => orders'[i] = orders[i]]_vars

\* C7: a conditional order causes at most one close: over all worker ticks there is at
\* most one close order, one trade and one ClosedPnLRecord the worker made for it
TriggerAtMostOnce ==
    \A o \in DOMAIN orders :
        /\ Cardinality(TriggeredCloses(o)) <= 1
        /\ Cardinality({t \in DOMAIN trades : trades[t].order \in TriggeredCloses(o)}) <= 1
        /\ Cardinality({k \in DOMAIN closedPnL :
                            closedPnL[k].order \in TriggeredCloses(o)}) <= 1

\* a tick after the one that triggered order o is running, the price is still beyond the
\* stop price of o and there still is a position on its side that could be closed
TriggeredThenTickedAgain ==
    \E o \in DOMAIN orders :
        /\ TriggeredCloses(o) # {}
        /\ worker.pc = "loop"
        /\ \A k \in DOMAIN worker.list : worker.list[k] # o
        /\ price # NoPrice
        /\ shouldTrigger(orders[o], price)
        /\ GetByAccountIDSymbolAndSide(orders[o].positionSide) # 0

\* C8: a conditional order, through whichever facade it came, is stored NEW with its stop
\* price and filledQty = 0, and stays NEW until it is cancelled or the worker triggers it
ConditionalStaysNew ==
    \A i \in DOMAIN orders :
        orders[i].type \in ConditionalTypes =>
            /\ orders[i].stopPrice > 0
            /\ \/ orders[i].status = "NEW" /\ orders[i].filledQty = 0
               \/ orders[i].status = "CANCELED"
               \/ TriggeredCloses(i) # {}

\* the trigger table: a stop-loss on LONG and a take-profit on SHORT fire at or below the
\* stop price, a stop-loss on SHORT and a take-profit on LONG at or above it
TriggerCondition(order, markPrice) ==
    IF (order.type = "TAKE_PROFIT") = (order.positionSide = "LONG")
    THEN markPrice >= order.stopPrice
    ELSE markPrice <= order.stopPrice

\* the step is one of the worker (a step that takes the whole process down is not: it is
\* the fatal error of some GetPrice call)
WorkerStepped == worker' # worker /\ worker'.pc \notin {"fatal", "down"}

\* the worker is about to examine order o of the list it loaded
Examining(o) == worker.pc = "loop" /\ worker.list[worker.i] = o /\ WorkerStepped

OneWayOnePosition == (~hedgeMode /\ faults = 0) => Cardinality(LivePositions) <= 1

\* the direction of an order side: a BUY goes with LONG, a SELL with SHORT
SideOf(orderSide) == IF orderSide = "BUY" THEN "LONG" ELSE "SHORT"

\* C11: with hedge mode off, a market order a client places on the side opposite to the
\* position the account holds is stored as a reducing order of that position, not as an
\* order that opens the other side (stated on a database whose writes all succeed)
OppositeOrderReduces ==
    [][(~hedgeMode /\ faults = 0 /\ Len(orders') = Len(orders) + 1) =>
          LET o == orders'[Len(orders')]
          IN \A p \in LivePositions :
                (o.type = "MARKET" /\ o.trigger = 0 /\ SideOf(o.side) # positions[p].side) =>
                    o.positionSide = positions[p].side /\ o.reduceOnly]_vars

\* C12: at any time there is at most one position row per (account, symbol, side), also
\* while opens of that side run concurrently
OnePositionPerSide ==
    \A i, j \in LivePositions : positions[i].side = positions[j].side => i = j

\* C13: a MARKET order is never acted on while it is NEW and never left NEW: the only
\* change a NEW market order undergoes is its fill, and no NEW market order is there once
\* the creating call has returned (stated on a database whose writes all succeed)
MarketNeverSeenNew ==
    [][faults' = 0 =>
          \A i \in DOMAIN orders :
              (orders[i].type = "MARKET" /\ orders[i].status = "NEW") =>
                  /\ orders'[i].status \in {"NEW", "FILLED"}
                  /\ (\A r \in Requests : req'[r].pc = "idle") => orders'[i].status = "FILLED"]_vars

\* the trades that belong to order i
TradesOf(i) == {t \in DOMAIN trades : trades[t].order = i}

\* C14: between operations, every FILLED market-open order has exactly one Trade, with
\* realisedPnL = 0, and every FILLED close order has exactly one Trade, for the order's
\* quantity and price and with the realisedPnL the close recorded
OneTradePerFilledOrder ==
    Quiescent =>
        \A i \in DOMAIN orders :
            (orders[i].status = "FILLED" /\ orders[i].type \notin ConditionalTypes) =>
                /\ Cardinality(TradesOf(i)) = 1
                /\ \A t \in TradesOf(i) :
                      /\ trades[t].qty = orders[i].filledQty
                      /\ trades[t].price = orders[i].avgPrice
                      /\ ~orders[i].reduceOnly => trades[t].realizedPnL = 0
                      /\ orders[i].reduceOnly =>
                            \A k \in DOMAIN closedPnL :
                                closedPnL[k].order = i =>
                                    closedPnL[k].realizedPnL = trades[t].realizedPnL

\* the ClosedPnLRecords of position row p and of close order i
RecordsOfPosition(p) == {k \in DOMAIN closedPnL : closedPnL[k].position = p}
RecordsOfOrder(i) == {k \in DOMAIN closedPnL : closedPnL[k].order = i}

\* C15: between operations, a ClosedPnLRecord is there exactly for the closes that took a
\* position to zero: every position row that was removed has exactly one record, every
\* record comes from a close order for the whole quantity of its row, a close order for
\* the whole quantity has exactly one record and a close order for a part of it has none
RecordIffFullClose ==
    Quiescent =>
        /\ \A p \in DOMAIN positions :
              ~positions[p].live => Cardinality(RecordsOfPosition(p)) = 1
        /\ \A k \in DOMAIN closedPnL :
              /\ orders[closedPnL[k].order].closePosition
              /\ orders[closedPnL[k].order].filledQty = closedPnL[k].qty
        /\ \A i \in DOMAIN orders :
              (orders[i].status = "FILLED" /\ orders[i].reduceOnly) =>
                  Cardinality(RecordsOfOrder(i)) = IF orders[i].closePosition THEN 1 ELSE 0

\* margin + fee of a market open of quantity qty on side at mark price p
OpenCost(p, side, qty, leverage) ==
    LET exec == OpenExecutionPrice(p, side, "MARKET", 0)
    IN MarginFor(exec * qty, leverage) + TakerFee(exec * qty)

\* request r passes an open to the engine in this step
OpenCalled(r) == req[r].pc = "idle" /\ req'[r].op = "open"

\* the step is one of the handler that serves slot r (a step that takes the whole process
\* down is not: it is the fatal error of some GetPrice call)
HandlerStep(r) == req'[r] # req[r] /\ req'[r].pc # "down"

\* C16: an open of a valid quantity at an available price whose margin + fee exceeds the
\* balance returns InsufficientBalance, and only such an open does; the call creates no
\* order, trade or position and leaves the balance as it is, up to the answer to the client
InsufficientBalanceRejected ==
    [][\A r \in Requests :
          LET short == balance < OpenCost(price, req'[r].side, req'[r].qty, defaultLeverage)
              valid == /\ price # NoPrice
                       /\ req'[r].qty >= SymbolInfo.MinQty
                       /\ req'[r].qty <= SymbolInfo.MaxQty
              rejected == req'[r].pc = "respond" /\ req'[r].err = "InsufficientBalance"
          IN /\ (OpenCalled(r) /\ valid /\ short) => rejected
             /\ (req[r].pc # "respond" /\ rejected) => (OpenCalled(r) /\ valid /\ short)
             /\ (HandlerStep(r) /\ (rejected \/ req[r].err = "InsufficientBalance")) =>
                    /\ UNCHANGED <<balance, positions, orders, trades, closedPnL>>
                    /\ req'[r].pc \in {"respond", "idle"}]_vars

\* an open has just been rejected with InsufficientBalance while the account holds a
\* balance and a position, and the balance is the one the call read
OpenRejectedForBalance ==
    \E r \in Requests :
        /\ req[r].pc = "respond" /\ req[r].op = "open"
        /\ req[r].err = "InsufficientBalance"
        /\ balance > 0 /\ balance = req[r].bal
        /\ LivePositions # {}

\* the live position rows of a side
LiveOn(side) == {p \in LivePositions : positions[p].side = side}

\* C17: a close on a side without a position returns NoOpenPosition, a close of more than
\* the position holds returns InvalidQuantity, and these errors come from nothing else; in
\* both cases the call creates no order, trade or ClosedPnLRecord and leaves positions and
\* balance as they are, up to the answer to the client
CloseRejected ==
    [][\A r \in Requests :
          LET looking == req[r].pc = "close_read" /\ HandlerStep(r)
              absent == LiveOn(req[r].side) = {}
              excess == /\ LiveOn(req[r].side) # {}
                        /\ \A p \in LiveOn(req[r].side) : req[r].qty > positions[p].qty
              returned(e) == req[r].pc # "respond" /\ req'[r].pc = "respond" /\ req'[r].err = e
          IN /\ (looking /\ absent) => returned("NoOpenPosition")
             /\ (looking /\ excess) => returned("InvalidQuantity")
             /\ returned("NoOpenPosition") => (looking /\ absent)
             /\ (returned("InvalidQuantity") /\ req'[r].op = "close") => (looking /\ excess)
             /\ (/\ HandlerStep(r)
                 /\ req'[r].op = "close"
                 /\ req'[r].err \in {"NoOpenPosition", "InvalidQuantity"}) =>
                    UNCHANGED <<balance, positions, orders, trades, closedPnL>>
             /\ (/\ HandlerStep(r)
                 /\ req[r].op = "close"
                 /\ req[r].err \in {"NoOpenPosition", "InvalidQuantity"}) =>
                    /\ UNCHANGED <<balance, positions, orders, trades, closedPnL>>
                    /\ req'[r].pc = "idle"]_vars

\* a close of more than the position holds has just been rejected with InvalidQuantity:
\* the position is there with its quantity and no ClosedPnLRecord was written
CloseRejectedForQuantity ==
    \E r \in Requests :
        /\ req[r].pc = "respond" /\ req[r].op = "close"
        /\ req[r].err = "InvalidQuantity"
        /\ \E p \in LiveOn(req[r].side) : positions[p].qty < req[r].qty /\ positions[p].qty > 0
        /\ closedPnL = <<>>

\* X * p * (2s + 2f), with s = 1 / SlippageDen and f = TakerFeeNum / RateDen
RoundTripCost(X, p) ==
    RoundDiv(2 * X * p, SlippageDen) + RoundDiv(2 * X * p * TakerFeeNum, RateDen)

\* what rounding the opening price to the tick can add to or take from the cost of X units:
\* half a tick per unit and the fee on it (and 2e-6 for the rounding of the amounts)
RoundTripTolerance(X) ==
    RoundDiv(X * SymbolInfo.TickSize * (RateDen + TakerFeeNum), 2 * RateDen) + 2

\* the run so far is a market open of X units on side at mark price p, from the initial
\* balance and no position, and then a full market close at the same mark price p
RoundTripDone(X, p, side) ==
    /\ faults = 0
    /\ \A r \in Requests : req[r].pc \in {"idle", "respond"}
    /\ Len(orders) = 2 /\ Len(trades) = 2
    /\ orders[1].type = "MARKET" /\ ~orders[1].reduceOnly /\ orders[1].positionSide = side
    /\ orders[2].type = "MARKET" /\ orders[2].reduceOnly /\ orders[2].positionSide = side
    /\ orders[2].closePosition
    /\ trades[1].order = 1 /\ trades[1].qty = X
    /\ trades[2].order = 2 /\ trades[2].qty = X
    /\ trades[1].price = OpenExecutionPrice(p, side, "MARKET", 0)
    /\ trades[2].price = CloseExecutionPrice(p, side, "MARKET")

LiquidationPriceOfRow ==
    \A p \in LivePositions :
        LET entry == positions[p].entry
            L == positions[p].lev
            part == RoundDiv(entry, L) - RoundDiv(entry * MMRNum, MMRDen)
        IN Abs(positions[p].liq - (IF positions[p].side = "LONG" THEN entry - part
                                                               ELSE entry + part)) <= 2

\* the trigger table, row by row
TriggerTable(order, markPrice) ==
    LET stopLoss == order.type \in {"STOP_MARKET", "STOP_LOSS"}
        takeProfit == order.type = "TAKE_PROFIT"
    IN \/ stopLoss /\ order.positionSide = "LONG" /\ markPrice <= order.stopPrice
       \/ stopLoss /\ order.positionSide = "SHORT" /\ markPrice >= order.stopPrice
       \/ takeProfit /\ order.positionSide = "LONG" /\ markPrice >= order.stopPrice
       \/ takeProfit /\ order.positionSide = "SHORT" /\ markPrice <= order.stopPrice

\* C20: when the worker examines a pending conditional order, it fires the order (the
\* order leaves NEW and a close order and trade are written for it) if and only if the
\* row of the trigger table for the order's type and position side holds at the mark price
WorkerFiresByTable ==
    [][\A o \in DOMAIN orders :
          (Examining(o) /\ orders[o].status = "NEW" /\ price # NoPrice) =>
              LET fired == /\ orders'[o].status = "FILLED"
                           /\ Len(orders') = Len(orders) + 1
                           /\ orders'[Len(orders')].trigger = o
                           /\ Len(trades') = Len(trades) + 1
                  untouched == UNCHANGED <<balance, positions, orders, trades, closedPnL>>
              IN /\ TriggerTable(orders[o], price) => fired
                 /\ ~TriggerTable(orders[o], price) => untouched]_vars

\* the worker has fired a conditional order at a mark price equal to its stop price
FiredAtStopPrice ==
    \E o \in DOMAIN orders :
        /\ orders[o].type \in ConditionalTypes
        /\ orders[o].status = "FILLED"
        /\ TriggeredCloses(o) # {}
        /\ price = orders[o].stopPrice

\* C21: when the worker examines a loaded order while no price is available, it leaves
\* the order, and every table, as it is and goes on with the next loaded order of the
\* tick (or ends the tick after the last one)
WorkerSkipsUnpriced ==
    [][(worker.pc = "loop" /\ price = NoPrice /\ worker' # worker /\ worker'.pc # "down") =>
          /\ orders'[worker.list[worker.i]] = orders[worker.list[worker.i]]
          /\ UNCHANGED <<balance, positions, orders, trades, closedPnL>>
          /\ IF worker.i < Len(worker.list)
             THEN worker' = [worker EXCEPT !.i = worker.i + 1]
             ELSE worker' = IdleWorker]_vars

\* the entry in memory is there and was received less than 5 s ago
ReceivedWithinWindow == prices.Price # NoPrice /\ now - prices.received < StaleAfter

\* the key in Redis is there and has not expired
RedisHolds == redis.Price # NoPrice /\ now < redis.expires

\* the venue's clock agreed with the wall clock when the entry in memory was received
SourceInSync == prices.Timestamp = prices.received

\* C22: with a venue whose clock agrees with the wall clock, a GetPrice call returns the
\* price in memory when that entry is less than 5 s old; otherwise the call completes with
\* the Redis value when there is one, else with a REST quote or a price-unavailable error;
\* it never returns a price from memory that is older than 5 s
GetPriceFreshOrFallback ==
    (result # NoResult /\ SourceInSync) =>
        /\ ReceivedWithinWindow =>
               result = [status |-> "price", value |-> prices.Price, from |-> "memory"]
        /\ ~ReceivedWithinWindow =>
               /\ result.status \in {"price", "error"}
               /\ RedisHolds =>
                      result = [status |-> "price", value |-> redis.Price, from |-> "redis"]
               /\ ~RedisHolds => result.from \in {"rest", ""}
        /\ result.from = "memory" => now - prices.received <= StaleAfter

\* C23: an update received less than 5 s ago whose source timestamp is more than 5 s away
\* from the wall clock at receipt is served from memory by a GetPrice call
ServedByReceiptTime ==
    (/\ result # NoResult
     /\ ReceivedWithinWindow
     /\ Abs(prices.Timestamp - prices.received) > StaleAfter) =>
        result = [status |-> "price", value |-> prices.Price, from |-> "memory"]

\* the socket is open: the client is connected and the socket works
Open == client.isConnected /\ client.conn = "open"

\* C24: once the read loop runs, whenever the venue stays reachable from some moment on
\* (and the process runs and nobody closes the client), the client gets to OPEN again, no
\* matter how many reconnect attempts failed before
ReconnectsWhenReachable ==
    []((/\ routines.messageLoop # "none"
        /\ [](venue.reachable /\ ProcessUp /\ ~client.cancelled)) => <>Open)

\* the reconnect loop has used up its attempts: the read loop runs without a socket
Halted ==
    /\ episode.dials = maxReconnectAttempts
    /\ routines.messageLoop \in {"retry", "top", "sleep"}
    /\ ~client.isConnected

Backoff(n) == IF reconnectDelay * 2^(n - 1) < 60 THEN reconnectDelay * 2^(n - 1) ELSE 60

\* C26: the wait before the n-th reconnect attempt in a row is min(5 s * 2^(n-1), 60 s)
BackoffSchedule ==
    [][episode'.dials = episode.dials + 1 =>
          episode'.lastWait = Backoff(episode'.dials)]_vars

CloseReturns ==
    /\ [](routines.Close # "none" => <>(routines.Close = "returned"))
    /\ [](routines.Close = "returned" =>
             /\ routines.messageLoop \in {"none", "exit"}
             /\ routines.pingLoop \in {"none", "exit"})
    /\ [][routines.Close = "returned" => prices' = prices]_vars

\* C29: a venue client never has more than one read loop, reconnects included; that loop
\* stores each message before it reads the next, so the message it holds is the last one
\* read and, when it holds none, the table has the price of the last message read
OneReadLoopInOrder ==
    /\ episode.loopsStarted <= 1
    /\ routines.messageLoop = "handle" => episode.message = episode.lastRead
    /\ routines.messageLoop # "handle" =>
           /\ episode.message = NoPrice
           /\ prices.Price = episode.lastRead

\* after a reconnect the one read loop holds a new message, while the table still has
\* the different price of the message before
ReadAfterReconnect ==
    /\ episode.reconnected
    /\ episode.loopsStarted = 1
    /\ routines.messageLoop = "handle"
    /\ prices.Price # NoPrice
    /\ prices.Price # episode.message


\* the order form the facade received is a hedge-mode closing form ...
ClosingForm ==
    \/ received.positionSide = "LONG" /\ received.side = "SELL"
    \/ received.positionSide = "SHORT" /\ received.side = "BUY"

\* ... or a hedge-mode opening form without reduceOnly
OpeningForm ==
    /\ ~received.reduceOnly
    /\ \/ received.positionSide = "LONG" /\ received.side = "BUY"
       \/ received.positionSide = "SHORT" /\ received.side = "SELL"

\* the engine is executing the order the facade received last
InCall == received # NoForm /\ req[1].pc # "idle"

\* C30: on every venue facade a market order whose position side and order side form a
\* hedge-mode closing pair (LONG with SELL, SHORT with BUY) reaches the engine as a close of
\* that position side and no step of its execution adds a position row or raises a
\* position's quantity; an opening pair (LONG with BUY, SHORT with SELL, reduceOnly not
\* set) reaches the engine as an open of that position side.
HedgeDirection ==
    /\ [](InCall /\ ClosingForm =>
            req[1].op = "close" /\ req[1].side = received.positionSide)
    /\ [](InCall /\ OpeningForm =>
            req[1].op = "open" /\ req[1].side = received.positionSide)
    /\ [][InCall /\ ClosingForm =>
            \A i \in DOMAIN positions' :
                i \in DOMAIN positions /\ positions'[i].qty <= positions[i].qty]_vars

\* the same for the Binance facade alone
BinanceHedgeDirection ==
    /\ [](received.venue = "binance" /\ InCall /\ ClosingForm =>
            req[1].op = "close" /\ req[1].side = received.positionSide)
    /\ [](received.venue = "binance" /\ InCall /\ OpeningForm =>
            req[1].op = "open" /\ req[1].side = received.positionSide)
    /\ [][received.venue = "binance" /\ InCall /\ ClosingForm =>
            \A i \in DOMAIN positions' :
                i \in DOMAIN positions /\ positions'[i].qty <= positions[i].qty]_vars

\* a closing form was received and a position grew: the long of quantity 1 has quantity 2
\* after an OKX order with posSide long and side sell
ClosingFormGrewPosition ==
    /\ ClosingForm
    /\ req[1].pc = "respond"
    /\ req[1].err = ""
    /\ req[1].op = "open"
    /\ \E i \in DOMAIN positions : positions[i].live /\ positions[i].qty > 1

\* a request for a LIMIT order is in the engine
LimitCall(r) == req[r].pc \notin {"idle", "down"} /\ req[r].otype = "LIMIT"

\* C31: a LIMIT order, opening or closing, is stored with status NEW and stays NEW until
\* it is cancelled (its row is never FILLED), and no step of the request that places it
\* changes the balance or the positions, trades or closed-PnL tables.
LimitStaysNew ==
    /\ [](\A i \in DOMAIN orders :
            orders[i].type = "LIMIT" => orders[i].status \in {"NEW", "CANCELED"})
    /\ [][LimitCall(1) /\ req' # req =>
            UNCHANGED <<balance, positions, trades, closedPnL>>]_vars

\* the same for opening LIMIT orders alone
OpeningLimitStaysNew ==
    /\ [](\A i \in DOMAIN orders :
            (orders[i].type = "LIMIT" /\ ~orders[i].reduceOnly) =>
                orders[i].status \in {"NEW", "CANCELED"})
    /\ [][LimitCall(1) /\ req[1].op = "open" /\ req' # req =>
            UNCHANGED <<balance, positions, trades, closedPnL>>]_vars

\* a closing LIMIT order has been filled and has reduced a position
ClosingLimitFilled ==
    /\ LimitCall(1)
    /\ req[1].op = "close"
    /\ req[1].pc = "respond"
    /\ req[1].err = ""
    /\ \E i \in DOMAIN orders : orders[i].type = "LIMIT" /\ orders[i].status = "FILLED"

\* the request has passed the middleware into its handler
Served == http # NoRequest /\ http.pc = "served"

\* the client sent a signature that the holder of the account's secret computed over the
\* message the middleware reconstructs for the request
SignedByAccount(h) ==
    /\ h.sigIn # "none"
    /\ h.signed.secret = APISecret
    /\ SignedMessage(h) =
           (IF h.method \in {"POST", "DELETE"} /\ h.contentType = "form"
            THEN Encode(Keys(PostForm(h)) \cup Keys(h.query))
            ELSE h.query)

\* C32: no request reaches a private route of the Binance facade unless it carries a
\* signature computed with the account's stored secret over the reconstructed prehash,
\* whatever its HTTP method, GET included.
ServedOnlyIfSigned == Served => SignedByAccount(http)

\* the same for every request but a GET that carries no signature
ServedOnlyIfSignedUnlessBareGet ==
    (Served /\ (http.method # "GET" \/ http.sigIn = "query")) => SignedByAccount(http)

\* a GET without any signature has reached its handler
UnsignedGetServed == Served /\ http.method = "GET" /\ http.sigIn = "none"

\* the request carries a timestamp, in its query or in its form
HasTimestamp(h) == "timestamp" \in Keys(h.query) \cup Keys(PostForm(h))

\* the distance between the server's time and the timestamp, as integers
Skew(h) == IF ServerTimeMs >= h.timestamp.v THEN ServerTimeMs - h.timestamp.v
                                           ELSE h.timestamp.v - ServerTimeMs

\* C33: a request of the Binance facade reaches its handler only after the skew check:
\* it carries a timestamp, the timestamp is a number, and it differs from the server's time
\* by at most 300 000 ms (a request further off is answered -1021).
ServedOnlyInWindow ==
    Served => /\ HasTimestamp(http)
              /\ ~http.timestamp.err
              /\ Skew(http) <= SkewWindow

\* the same for requests that carry the timestamp in the query, less than half the
\* integer range away
ServedOnlyInWindowWhenInQuery ==
    (Served /\ "timestamp" \in Keys(http.query) /\ http.timestamp.v # ServerTimeMs + IntMin)
        => ~http.timestamp.err /\ Skew(http) <= SkewWindow

\* a request without a timestamp has reached its handler
NoTimestampServed == Served /\ ~HasTimestamp(http)

\* a request whose timestamp is half the integer range away has reached its handler
WrappedTimestampServed ==
    Served /\ "timestamp" \in Keys(http.query) /\ Skew(http) > SkewWindow

\* close orders the worker made on behalf of conditional order o
ClosesFor(o, rows) == {j \in DOMAIN rows : rows[j].trigger = o}

\* C34: a conditional order that CancelAllOrders has cancelled is never executed
\* afterwards, not even by a worker that loaded it before the cancel: its row stays
\* CANCELED, no close order is made for it, and no step of the worker on its behalf
\* changes a position or the balance.
CancelledNeverExecuted ==
    [][\A o \in DOMAIN orders :
          orders[o].status = "CANCELED" =>
              /\ orders'[o].status = "CANCELED"
              /\ ClosesFor(o, orders') = ClosesFor(o, orders)
              /\ (worker.pc = "loop" /\ worker.list[worker.i] = o) =>
                     UNCHANGED <<balance, positions>>]_vars

\* a facade has answered a single-order cancel request for order o with success
CancelAnswered(o) ==
    /\ req[1].pc = "respond"
    /\ req[1].op = "cancel"
    /\ req[1].err = ""
    /\ req[1].oid = o

\* C35: once a facade has answered a single-order cancel request (of a regular or an algo
\* order) with success for a pending order, the order is no longer pending (its stored
\* status is CANCELED) and the worker does not execute it.
CancelAnswerIsTrue ==
    /\ [](\A o \in DOMAIN orders : CancelAnswered(o) => orders[o].status # "NEW")
    /\ [][\A o \in DOMAIN orders :
            (CancelAnswered(o) /\ orders[o].status = "NEW") =>
                /\ orders'[o].status # "FILLED"
                /\ ClosesFor(o, orders') = ClosesFor(o, orders)]_vars

\* the position carries a stop-loss or take-profit level and the mark price has reached it
StopLevelReached ==
    /\ positions[1].live
    /\ price # NoPrice
    /\ LET p == positions[1]
       IN \/ p.stopLoss # 0 /\ (IF p.side = "LONG" THEN price <= p.stopLoss
                                                     ELSE price >= p.stopLoss)
          \/ p.takeProfit # 0 /\ (IF p.side = "LONG" THEN price >= p.takeProfit
                                                       ELSE price <= p.takeProfit)

\* C36: a position that carries a stop-loss or take-profit level set through SetStopLoss /
\* SetTakeProfit, with the mark price at or beyond that level from some moment on, is
\* eventually closed by the worker.
AttachedStopCloses == []([]StopLevelReached => <>(~positions[1].live))

\* a facade takes in an order: the step from the free slot into the engine
Received(r) == req[r].pc = "idle" /\ req'[r].pc # "idle" /\ received' # NoForm

\* the side a reduce-only order reduces: a SELL the LONG, a BUY the SHORT
ReducedSide(form) == IF form.side = "SELL" THEN "LONG" ELSE "SHORT"

\* C37: a reduce-only SELL on an account that holds a LONG position reaches the engine as
\* a close of the LONG, and a reduce-only BUY on an account that holds a SHORT as a close
\* of the SHORT; no step of a reduce-only order adds a position row or raises a
\* position's quantity.
ReduceOnlyReduces ==
    /\ [][(/\ Received(1)
           /\ received'.reduceOnly
           /\ received'.positionSide \in {ReducedSide(received'), "BOTH"}
           /\ GetByAccountIDSymbolAndSide(ReducedSide(received')) # 0)
              => req'[1].op = "close" /\ req'[1].side = ReducedSide(received')]_vars
    /\ [][(InCall /\ received.reduceOnly) =>
              \A i \in DOMAIN positions' :
                  i \in DOMAIN positions /\ positions'[i].qty <= positions[i].qty]_vars

\* the second half alone: a reduce-only order never adds to a position
ReduceOnlyNeverAdds ==
    [][(InCall /\ received.reduceOnly) =>
          \A i \in DOMAIN positions' :
              i \in DOMAIN positions /\ positions'[i].qty <= positions[i].qty]_vars

\* C38: once Close has returned the client holds no socket and IsConnected is false, and
\* it stays so, also when Close ran while a reconnect attempt was in progress.
ClosedStaysClosed ==
    routines.Close = "returned" => (client.conn = "nil" /\ ~client.isConnected)

\* C39: when the first dial at start-up has failed the client still retries: with the
\* venue reachable from some moment on (the process running, Close not called) the socket
\* is eventually open, the precondition of subscribing and of delivering prices.
FirstDialRecovers ==
    []((routines.Connect = "failed" /\ [](venue.reachable /\ ProcessUp /\ ~client.cancelled))
          => <>Open)

\* the mark price at the venue the account is bound to
OwnPrice == IF exchangeType = "okx" THEN okxPrice ELSE price

BinanceExecutedAtOwnVenue ==
    [][\A j \in DOMAIN orders' :
          (exchangeType = "binance" /\ j \notin DOMAIN orders /\ orders'[j].trigger # 0) =>
              orders'[j].avgPrice =
                  CloseExecutionPrice(OwnPrice, orders'[j].positionSide, "MARKET")]_vars
====
